---- MODULE Spec2Model ----
(***************************************************************************)
(* Model of the autobackup orchestration daemon: backup_server.run and the *)
(* functions it drives (backup_server.py), BackupConfig.load_config        *)
(* (backup_config.py) and the client wrappers of zfs_api_client.py whose   *)
(* error behaviour decides what the loop sees.  The remote storage API is  *)
(* the environment: every call draws its answer from the set of answers    *)
(* the client wrapper can hand back.                                       *)
(***************************************************************************)
EXTENDS Integers, Sequences, FiniteSets, TLC

VARIABLES
    server,              \* BackupConfig.server   (ServerConfig)
    api,                 \* BackupConfig.api      (ZFSAPIConfig)
    datasets,            \* BackupConfig.datasets (the active Dataset/Destination graph)
    settings,            \* backup_server's own copies of the policy, taken in __init__
    active_migrations,   \* backup_server.active_migrations: task id -> reference
    interrupt,           \* backup_server.interrupt
    pc,                  \* position of the worker inside run()
    idx,                 \* position of the for loop the worker is in
    backup_dataset,      \* run()'s local variable backup_dataset (survives the loop)
    completed_datasets,  \* remote_sync_async's local set completed_datasets
    clock,               \* wall clock, in ticks
    backup_log,          \* history: what the cycle did up to the snapshot block
    sync_log,            \* history: what the cycle did in remote_sync_async
    last_progress_log,   \* backup_server.last_progress_log: the task ids it holds
    zfs_snapshots,       \* remote API: the snapshots of a dataset, with their holds
    cleanup_log,         \* history: the calls of the last cleanup_dataset
    loading,             \* load_config's locals while it runs step by step
    observed,            \* what a concurrent reader of BackupConfig has read
    last_completed       \* history: the "completed" polls that are younger than
                         \* the sync interval, per destination

\* The remote snapshots as cleanup_dataset sees them, and its calls
cleanup_vars == <<zfs_snapshots, cleanup_log>>
\* load_config in steps, and its reader
swap_vars == <<loading, observed>>

vars == <<server, api, datasets, settings, active_migrations, interrupt, pc, idx,
          backup_dataset, completed_datasets, clock, backup_log, sync_log,
          last_progress_log, cleanup_vars, swap_vars, last_completed>>

----------------------------------------------------------------------------
(* Bounds of the model.                                                    *)

\* The remote snapshot listing of a dataset holds at most MaxSnaps snapshots.
MaxSnaps == 3
\* cleanup_dataset is followed through MaxRuns calls in succession.
MaxRuns == 2

\* The wall clock runs over the ticks 0..MaxTime.
MaxTime == 2
\* Task ids the remote API hands out: 1..MaxTask.
MaxTask == 2

\* Python's None for a timestamp field and for a task id field.
NoTime == -1
NoTask == 0
\* Python's None for a string field (remote_host, remote_dataset, local_dataset).
None == "None"

Times == 0..MaxTime
Tasks == 1..MaxTask

----------------------------------------------------------------------------
(* Wall clock.  One tick is ten minutes; tick 0 is 2025-12-31 23:50, so    *)
(* the ticks run over a year, month, day and hour boundary (tick 1 is      *)
(* 2026-01-01 00:00).  The strftime fields are computed from the tick; the *)
(* formulas are good for every tick up to the end of February 2026.        *)

TickSeconds == 10 * 60
BaseSeconds == 23 * 3600 + 50 * 60
SecondsOf(t) == BaseSeconds + TickSeconds * t
DayIndex(t) == SecondsOf(t) \div 86400

strftime_Y(t) == IF DayIndex(t) = 0 THEN 2025 ELSE 2026
strftime_m(t) == IF DayIndex(t) = 0 THEN 12 ELSE IF DayIndex(t) <= 31 THEN 1 ELSE 2
strftime_d(t) ==
    IF DayIndex(t) = 0 THEN 31 ELSE IF DayIndex(t) <= 31 THEN DayIndex(t) ELSE DayIndex(t) - 31
strftime_H(t) == (SecondsOf(t) % 86400) \div 3600
\* %W: week of the year, Monday first; 2026-01-05 is the first Monday of 2026.
strftime_W(t) == IF DayIndex(t) = 0 THEN 52 ELSE (DayIndex(t) + 2) \div 7
\* %w: weekday, 0 = Sunday; 2025-12-31 is a Wednesday.
strftime_w(t) == (3 + DayIndex(t)) % 7

\* (a - b).total_seconds() for two tick times
total_seconds(a, b) == TickSeconds * (a - b)

----------------------------------------------------------------------------
(* Configuration documents: what yaml.safe_load gives for the file.        *)

\* dict.get(key, default) on a mapping of the document
Get(d, k, default) == IF k \in DOMAIN d THEN d[k] ELSE default

EmptyDict == <<>>

AllDays == [i \in 1..7 |-> "1"]
AllHours == [i \in 1..24 |-> "1"]
\* hour masks with one hour closed (index h + 1 holds hour h)
HoursBut(h) == [i \in 1..24 |-> IF i = h + 1 THEN "0" ELSE "1"]

\* ServerConfig.__init__
ServerConfig(config_data) ==
    LET srv == Get(config_data, "server", EmptyDict)
        schedule == Get(srv, "schedule", EmptyDict)
        retention == Get(srv, "retention", EmptyDict)
        remote_sync == Get(srv, "remote_sync", EmptyDict)
    IN  [ backup_interval |-> Get(srv, "backup_interval", 600),
          days |-> Get(schedule, "days", AllDays),
          hours |-> Get(schedule, "hours", AllHours),
          keep_frequent |-> Get(retention, "frequent", 4),
          keep_hourly |-> Get(retention, "hourly", 12),
          keep_daily |-> Get(retention, "daily", 7),
          keep_weekly |-> Get(retention, "weekly", 4),
          keep_monthly |-> Get(retention, "monthly", 6),
          keep_yearly |-> Get(retention, "yearly", 3),
          remote_sync |-> Get(remote_sync, "enabled", FALSE),
          remote_sync_interval |-> Get(remote_sync, "interval", 86400),
          remote_sync_days |-> Get(remote_sync, "days", AllDays),
          remote_sync_hours |-> Get(remote_sync, "hours", AllHours) ]

\* ZFSAPIConfig.__init__
ZFSAPIConfig(config_data) ==
    LET a == Get(config_data, "zfs_api", EmptyDict)
    IN  [ url |-> Get(a, "url", "http://localhost:8545"),
          timeout |-> Get(a, "timeout", 30) ]

\* BackupDestination.__init__ on one entry of a dataset's destinations list
BackupDestination(dest_config) ==
    [ remote_host |-> Get(dest_config, "remote_host", None),
      remote_dataset |-> Get(dest_config, "remote_dataset", None),
      enabled |-> Get(dest_config, "enabled", TRUE),
      last_sync_time |-> NoTime,
      current_task_id |-> NoTask ]

\* BackupDataset.__init__
BackupDataset(local_dataset, destinations) ==
    [ local_dataset |-> local_dataset,
      destinations |-> destinations,
      active |-> TRUE,
      last_snapshot_time |-> NoTime ]

\* BackupDestination.is_local_only
is_local_only(dest) == dest.remote_host = None

\* BackupDestination.get_target_dataset
get_target_dataset(dest, local_dataset) ==
    IF dest.remote_dataset # None THEN dest.remote_dataset ELSE local_dataset

\* BackupDataset.has_remote_destinations
has_remote_destinations(ds) ==
    \E j \in 1..Len(ds.destinations) :
        ~is_local_only(ds.destinations[j]) /\ ds.destinations[j].enabled

----------------------------------------------------------------------------
(* The configuration sources the file can hold when it is (re)loaded.      *)
(*   kind "missing"      os.path.exists is false                           *)
(*   kind "yaml_error"   yaml.safe_load raises (syntactically invalid)     *)
(*   kind "empty"        yaml.safe_load returns None                       *)
(*   kind "not_mapping"  the document is a scalar or a list                *)
(*   kind "mapping"      a mapping; bad names the key whose value has not  *)
(*                       the shape the parser walks (a null section)       *)

ServerA == [ remote_sync |-> [enabled |-> TRUE, interval |-> 600] ]
ServerB ==
    [ backup_interval |-> 1200,
      schedule |-> [hours |-> HoursBut(23)],
      retention |-> [frequent |-> 2],
      remote_sync |-> [enabled |-> TRUE, interval |-> 1200, hours |-> HoursBut(0)] ]

DatasetsA ==
    << [ local_dataset |-> "tank/a",
         destinations |-> << [remote_host |-> "h1"], [remote_host |-> "h2"] >> ] >>
\* an entry without local_dataset, a remote dataset named explicitly, a
\* disabled destination and a local-only one
DatasetsB ==
    << [ destinations |-> << [remote_host |-> "h1"] >> ],
       [ local_dataset |-> "tank/a",
         destinations |-> << [remote_host |-> "h1", remote_dataset |-> "tank/a"],
                             [remote_host |-> "h2", enabled |-> FALSE] >> ],
       [ local_dataset |-> "tank/b",
         destinations |-> << [enabled |-> TRUE], [remote_host |-> "h2"] >> ] >>

Doc(data) == [kind |-> "mapping", data |-> data, bad |-> None]
BadDoc(data, key) == [kind |-> "mapping", data |-> data, bad |-> key]
NoDoc(kind) == [kind |-> kind, data |-> EmptyDict, bad |-> None]

DocA == Doc([server |-> ServerA, datasets |-> DatasetsA])
DocB == Doc([server |-> ServerA, datasets |-> DatasetsB])
DocC == Doc([server |-> ServerB, zfs_api |-> [url |-> "http://zfs:8545"],
             datasets |-> DatasetsA])
DocD == Doc([server |-> ServerA])

ValidSources == {DocA, DocB, DocC, DocD}

InvalidSources ==
    { NoDoc("yaml_error"), NoDoc("empty"), NoDoc("not_mapping"),
      BadDoc([server |-> ServerB, datasets |-> DatasetsA], "server"),
      BadDoc([server |-> ServerB, datasets |-> DatasetsA], "datasets"),
      BadDoc([server |-> ServerB,
              datasets |-> << [local_dataset |-> "tank/b"] >>], "destinations") }

MissingSource == NoDoc("missing")

Sources == ValidSources \cup InvalidSources \cup {MissingSource}

----------------------------------------------------------------------------
(* BackupConfig.load_config                                                *)

\* the index of the first element of seq that satisfies P, 0 when there is none
FirstIndex(seq, P(_)) ==
    IF \E i \in 1..Len(seq) : P(seq[i])
    THEN CHOOSE i \in 1..Len(seq) : P(seq[i]) /\ \A k \in 1..(i - 1) : ~P(seq[k])
    ELSE 0

\* Whether the try block of load_config raises on this source: the YAML
\* parser raises, config_data is None, or an attribute/iteration fails on a
\* value that is not a mapping or a list.
ParseRaises(src) ==
    \/ src.kind \in {"yaml_error", "empty", "not_mapping"}
    \/ src.kind = "mapping" /\ src.bad # None

\* The loop over config_data.get('datasets', []): entries without a
\* local_dataset are skipped, the others become fresh objects.
ParseDatasets(config_data) ==
    LET entries == Get(config_data, "datasets", <<>>)
        named == SelectSeq(entries, LAMBDA e : Get(e, "local_dataset", None) # None)
    IN  [ i \in 1..Len(named) |->
            LET dests == Get(named[i], "destinations", <<>>)
            IN  BackupDataset(named[i].local_dataset,
                              [j \in 1..Len(dests) |-> BackupDestination(dests[j])]) ]

\* A match on the remote host alone
destination_matches_host(new_dest, old_dest) ==
    new_dest.remote_host = old_dest.remote_host

\* The match of a new destination against an old one
destination_matches(new_dest, old_dest) ==
    /\ new_dest.remote_host = old_dest.remote_host
    /\ new_dest.remote_dataset = old_dest.remote_dataset

\* A copy that carries the sync time over and leaves the task id unset
copy_sync_time_only(new_dest, old_dest) ==
    [new_dest EXCEPT !.last_sync_time = old_dest.last_sync_time]

\* The copy of the two runtime fields from the matched old destination
copy_runtime_state(new_dest, old_dest) ==
    [new_dest EXCEPT !.last_sync_time = old_dest.last_sync_time,
                     !.current_task_id = old_dest.current_task_id]

\* "Preserve runtime state from old config"
preserve_runtime_state(new_datasets, old_datasets) ==
    IF old_datasets = <<>> THEN new_datasets
    ELSE [ i \in 1..Len(new_datasets) |->
            LET new_ds == new_datasets[i]
                k == FirstIndex(old_datasets,
                                LAMBDA ds : ds.local_dataset = new_ds.local_dataset)
            IN  IF k = 0 THEN new_ds
                ELSE [ new_ds EXCEPT !.destinations =
                        [ j \in 1..Len(new_ds.destinations) |->
                            LET new_dest == new_ds.destinations[j]
                                m == FirstIndex(old_datasets[k].destinations,
                                        LAMBDA old : destination_matches(new_dest, old))
                            IN  IF m = 0 THEN new_dest
                                ELSE copy_runtime_state(new_dest,
                                        old_datasets[k].destinations[m]) ] ] ]

\* self.server / self.api before the first load
NoConfig == [unset |-> TRUE]

\* What the except branch leaves in self.server (and likewise self.api)
keep_or_default(old, default) == IF old # NoConfig THEN old ELSE default

\* The file does not exist: defaults for server and api, datasets untouched
load_missing(self) ==
    [ server |-> ServerConfig(EmptyDict),
      api |-> ZFSAPIConfig(EmptyDict),
      datasets |-> self.datasets,
      report |-> "not_found",
      swapped |-> FALSE ]

\* An except branch that falls back to the defaults whatever was loaded
load_failed_to_defaults(self) ==
    [ server |-> ServerConfig(EmptyDict),
      api |-> ZFSAPIConfig(EmptyDict),
      datasets |-> <<>>,
      report |-> "failed",
      swapped |-> FALSE ]

\* The try block raised: the old configuration is kept
load_failed(self) ==
    [ server |-> keep_or_default(self.server, ServerConfig(EmptyDict)),
      api |-> keep_or_default(self.api, ZFSAPIConfig(EmptyDict)),
      datasets |-> self.datasets,
      report |-> "failed",
      swapped |-> FALSE ]

\* The try block ran to its end: the new objects replace the old ones
load_parsed(self, src) ==
    [ server |-> ServerConfig(src.data),
      api |-> ZFSAPIConfig(src.data),
      datasets |-> preserve_runtime_state(ParseDatasets(src.data), self.datasets),
      report |-> "ok",
      swapped |-> TRUE ]

\* load_config as a function of the object's fields and the file's content
load_config(self, src) ==
    IF src.kind = "missing" THEN load_missing(self)
    ELSE IF ParseRaises(src) THEN load_failed(self)
    ELSE load_parsed(self, src)

----------------------------------------------------------------------------
(* backup_server.reload_config: the references of active_migrations        *)

\* A reference (destination, backup_dataset) held by active_migrations.  The
\* objects of the active graph are named by their position (ds, dest); an
\* object that is no longer part of the active graph is stale and only its
\* identity fields are kept.
LiveRef(graph, i, j) ==
    [ live |-> TRUE, ds |-> i, dest |-> j,
      local_dataset |-> graph[i].local_dataset,
      remote_host |-> graph[i].destinations[j].remote_host,
      remote_dataset |-> graph[i].destinations[j].remote_dataset ]

StaleRef(ref) == [ref EXCEPT !.live = FALSE, !.ds = 0, !.dest = 0]

\* The two nested searches of reload_config for one tracked task.  swapped
\* says that the graph is made of new objects, so that a reference that is
\* not replaced points to an object of the old graph.
resolve_reference(ref, graph, swapped) ==
    LET i == FirstIndex(graph, LAMBDA ds : ds.local_dataset = ref.local_dataset)
        j == IF i = 0 THEN 0
             ELSE FirstIndex(graph[i].destinations,
                             LAMBDA d : destination_matches(d, ref))
    IN  IF i # 0 /\ j # 0 THEN LiveRef(graph, i, j)
        ELSE IF swapped THEN StaleRef(ref)
        ELSE ref

reload_references(migrations, graph, swapped) ==
    [ t \in DOMAIN migrations |-> resolve_reference(migrations[t], graph, swapped) ]

----------------------------------------------------------------------------
(* Schedule windows and tier selection                                     *)

\* int() of one character of a bitmask string
IntOf(c) == IF c = "1" THEN 1 ELSE 0

\* An index that takes %w as it is (0 = Sunday)
weekday_index_unshifted(now) == strftime_w(now)

\* The weekday index of check_schedule: %w shifted by one, Sunday wrapped to 6
weekday_index(now) ==
    IF strftime_w(now) - 1 < 0 THEN 6 ELSE strftime_w(now) - 1

\* backup_server.check_schedule, on the copies taken in __init__
check_schedule(self, now) ==
    /\ IntOf(self.days[weekday_index(now) + 1]) # 0
    /\ IntOf(self.hours[strftime_H(now) + 1]) # 0

\* backup_server.check_remote_sync_schedule
check_remote_sync_schedule(self, now) ==
    IF self.remote_sync
    THEN /\ IntOf(self.remote_sync_days[weekday_index(now) + 1]) # 0
         /\ IntOf(self.remote_sync_hours[strftime_H(now) + 1]) # 0
    ELSE FALSE

\* A selection that looks at the week before the month
select_tag_week_first(last_snapshot_time, now, backup_interval) ==
    IF last_snapshot_time = NoTime THEN "frequent"
    ELSE IF strftime_Y(last_snapshot_time) # strftime_Y(now) THEN "yearly"
    ELSE IF strftime_W(last_snapshot_time) # strftime_W(now) THEN "weekly"
    ELSE IF strftime_m(last_snapshot_time) # strftime_m(now) THEN "monthly"
    ELSE IF strftime_d(last_snapshot_time) # strftime_d(now) THEN "daily"
    ELSE IF strftime_H(last_snapshot_time) # strftime_H(now) THEN "hourly"
    ELSE IF total_seconds(now, last_snapshot_time) > backup_interval THEN "frequent"
    ELSE "none"

\* The tag chosen in run() for a dataset; "none" stands for tag = None
select_tag(last_snapshot_time, now, backup_interval) ==
    IF last_snapshot_time = NoTime THEN "frequent"
    ELSE IF strftime_Y(last_snapshot_time) # strftime_Y(now) THEN "yearly"
    ELSE IF strftime_m(last_snapshot_time) # strftime_m(now) THEN "monthly"
    ELSE IF strftime_W(last_snapshot_time) # strftime_W(now) THEN "weekly"
    ELSE IF strftime_d(last_snapshot_time) # strftime_d(now) THEN "daily"
    ELSE IF strftime_H(last_snapshot_time) # strftime_H(now) THEN "hourly"
    ELSE IF total_seconds(now, last_snapshot_time) > backup_interval THEN "frequent"
    ELSE "none"

----------------------------------------------------------------------------
(* The answers of the remote API, as the client wrappers hand them back    *)

\* get_backup_snapshots: the listing failed (caught, last time None), or the
\* time parsed from the last backup snapshot (NoTime: none, or unparsable)
SnapshotAnswers(E, now) ==
    {[ok |-> FALSE, last |-> NoTime]}
        \cup {[ok |-> TRUE, last |-> t] : t \in E.snapshot_times \cap ({NoTime} \cup 0..now)}

get_backup_snapshots(answer) == IF answer.ok THEN answer.last ELSE NoTime

\* get_migration_status: the remote status, "error" for the dict the wrapper
\* builds when the call raises, "malformed" for a result that is no mapping
PollAnswers ==
    {"pending", "running", "completed", "failed", "cancelled", "error", "malformed"}

\* has_running_migration: True only when the listing shows a pending or
\* running task of the dataset; False also when the call raises
RunningAnswers == {"running", "idle", "error"}
has_running_migration(answer) == answer = "running"

Hosts == {"h1", "h2"}

\* zfs.get_holds as update_destination_sync_times reads it: the call raises,
\* or, per host, the newest parsable sync hold time (NoTime: no such hold)
HoldAnswers(E, now) ==
    {[ok |-> FALSE, sync_times |-> [h \in Hosts |-> NoTime]]}
        \cup {[ok |-> TRUE, sync_times |-> f] :
                f \in [Hosts -> E.hold_times \cap ({NoTime} \cup 0..now)]}

\* A merge that takes the hold time whatever the destination holds
merge_sync_time_overwrites(dest, answer) ==
    IF /\ answer.ok
       /\ dest.remote_host # None
       /\ dest.remote_host \in Hosts
       /\ answer.sync_times[dest.remote_host] # NoTime
    THEN [dest EXCEPT !.last_sync_time = answer.sync_times[dest.remote_host]]
    ELSE dest

\* The merge of update_destination_sync_times into one destination
merge_sync_time(dest, answer) ==
    IF /\ answer.ok
       /\ dest.remote_host # None
       /\ dest.remote_host \in Hosts
       /\ answer.sync_times[dest.remote_host] # NoTime
       /\ \/ dest.last_sync_time = NoTime
          \/ answer.sync_times[dest.remote_host] > dest.last_sync_time
    THEN [dest EXCEPT !.last_sync_time = answer.sync_times[dest.remote_host]]
    ELSE dest

\* update_destination_sync_times
update_destination_sync_times(ds, answer) ==
    [ds EXCEPT !.destinations =
        [j \in 1..Len(ds.destinations) |-> merge_sync_time(ds.destinations[j], answer)]]

----------------------------------------------------------------------------
(* remote_sync_async, first half: the poll of every tracked task           *)

\* The statuses on which the task is dropped: the three terminal ones, and
\* the except branch (reached when reading the result raises)
is_terminal(answer) == answer \in {"completed", "failed", "cancelled", "malformed"}

completed_tasks(migrations, answers) ==
    {t \in DOMAIN migrations : is_terminal(answers[t])}

\* The tasks whose reference is the live destination (i, j)
TasksOf(migrations, i, j) ==
    {t \in DOMAIN migrations :
        migrations[t].live /\ migrations[t].ds = i /\ migrations[t].dest = j}

\* A poll loop that stamps the sync time whatever the terminal status
poll_destination_stamps_all(dest, polled, answers, now) ==
    LET done == {t \in polled : is_terminal(answers[t])}
    IN  [dest EXCEPT
            !.current_task_id = IF done # {} THEN NoTask ELSE @,
            !.last_sync_time = IF done # {} THEN now ELSE @]

\* The writes of the poll loop to one destination object
poll_destination(dest, polled, answers, now) ==
    LET done == {t \in polled : is_terminal(answers[t])}
        ok == {t \in polled : answers[t] = "completed"}
    IN  [dest EXCEPT
            !.current_task_id = IF done # {} THEN NoTask ELSE @,
            !.last_sync_time = IF ok # {} THEN now ELSE @]

poll_graph(graph, migrations, answers, now) ==
    [i \in 1..Len(graph) |->
        [graph[i] EXCEPT !.destinations =
            [j \in 1..Len(graph[i].destinations) |->
                poll_destination(graph[i].destinations[j],
                                 TasksOf(migrations, i, j), answers, now)]]]

\* A poll loop that keeps the entry of a task it drops
log_progress_kept(progress_log, migrations, answers) ==
    progress_log \cup {t \in DOMAIN migrations : answers[t] = "running"}

\* The writes of the poll loop to last_progress_log, of which only the keys
\* are kept (the times throttle the printing and nothing else): a task that
\* is dropped loses its entry, a task that answers "running" gets one
log_progress(progress_log, migrations, answers) ==
    (progress_log \cup {t \in DOMAIN migrations : answers[t] = "running"})
        \ completed_tasks(migrations, answers)

\* The identity of a destination: its dataset, its remote host and the
\* remote dataset name in effect
Identity(local_dataset, dest) ==
    [ local_dataset |-> local_dataset, remote_host |-> dest.remote_host,
      target |-> get_target_dataset(dest, local_dataset) ]

\* History of "status == completed" in the poll loop: per destination, the
\* time of the poll (the "datetime.now()" written to last_sync_time)
record_completed(history, migrations, answers, now) ==
    LET ok == { Identity(migrations[t].local_dataset, migrations[t]) :
                    t \in {u \in DOMAIN migrations : answers[u] = "completed"} }
    IN  {e \in history : e.dest \notin ok} \cup {[dest |-> d, time |-> now] : d \in ok}

\* The history that is younger than the sync interval at the time now
younger_than(history, now, remote_sync_interval) ==
    {e \in history : total_seconds(now, e.time) < remote_sync_interval}

\* The history of the destinations that are part of the graph
still_configured(history, graph) ==
    { e \in history :
        \E i \in 1..Len(graph) : \E j \in 1..Len(graph[i].destinations) :
            Identity(graph[i].local_dataset, graph[i].destinations[j]) = e.dest }

\* A removal that leaves the finished tasks in the map
remove_completed_skipped(migrations, answers) == migrations

\* "Remove completed migrations"
remove_completed(migrations, answers) ==
    [t \in DOMAIN migrations \ completed_tasks(migrations, answers) |-> migrations[t]]

----------------------------------------------------------------------------
(* remote_sync_async, second half: the start of new migrations             *)

\* A due test that leaves the boundary out
needs_sync_strict(dest, now, remote_sync_interval) ==
    IF dest.last_sync_time # NoTime
    THEN total_seconds(now, dest.last_sync_time) > remote_sync_interval
    ELSE TRUE

\* needs_sync of one destination
needs_sync(dest, now, remote_sync_interval) ==
    IF dest.last_sync_time # NoTime
    THEN total_seconds(now, dest.last_sync_time) >= remote_sync_interval
    ELSE TRUE

\* The destinations for which the inner loop calls remote_sync, in order:
\* enabled, not local-only, and due
due_destinations(ds, now, remote_sync_interval) ==
    SelectSeq([j \in 1..Len(ds.destinations) |-> j],
              LAMBDA j : /\ ds.destinations[j].enabled
                         /\ ~is_local_only(ds.destinations[j])
                         /\ needs_sync(ds.destinations[j], now, remote_sync_interval))

\* An inner loop that is entered whatever has_running_migration returned
destinations_despite_running(ds, running, now, remote_sync_interval) ==
    due_destinations(ds, now, remote_sync_interval)

\* The destinations the loop reaches when the dataset is not skipped
destinations_to_try(ds, running, now, remote_sync_interval) ==
    IF running THEN <<>> ELSE due_destinations(ds, now, remote_sync_interval)

\* Task ids that appear nowhere in the state; the remote API issues an id
\* that is not one of those the program still holds
UsedTasks ==
    DOMAIN active_migrations \cup
        UNION { {datasets[i].destinations[j].current_task_id :
                    j \in 1..Len(datasets[i].destinations)} : i \in 1..Len(datasets) }
FreeTasks == Tasks \ UsedTasks

\* get_datasets_with_remote_sync, as positions in the graph, from position i on
NextRemote(graph, i) ==
    IF \E k \in i..Len(graph) : has_remote_destinations(graph[k])
    THEN CHOOSE k \in i..Len(graph) :
            /\ has_remote_destinations(graph[k])
            /\ \A m \in i..(k - 1) : ~has_remote_destinations(graph[m])
    ELSE 0

----------------------------------------------------------------------------
(* State                                                                   *)

\* run()'s backup_dataset before the for loop has bound it
Unbound == [local_dataset |-> None, active |-> FALSE, last_snapshot_time |-> NoTime]

\* The dataset object the loop variable names
Bound(ds) ==
    [ local_dataset |-> ds.local_dataset, active |-> ds.active,
      last_snapshot_time |-> ds.last_snapshot_time ]

\* What the cycle has done from the reload to the end of the snapshot block
\* (history, cleared when the worker leaves that part of the loop body):
\*   report      what load_config printed: "ok" nothing, "not_found" the
\*               missing-file warning, "failed" the failed-reload warning
\*   visited     positions of the datasets the backup loop reached
\*   schedule    the results of check_schedule
\*   cleaned     positions of the datasets whose cleanup_dataset returned
\*   snapshots   the snapshot_auto calls: dataset, tag and outcome
\*   raised      an exception reached the except clause of run()
NewBackupLog(report) ==
    [ report |-> report, visited |-> {}, schedule |-> {}, cleaned |-> {},
      snapshots |-> {}, raised |-> FALSE ]

NoBackupLog == NewBackupLog("none")

\* What remote_sync_async has done in this cycle (history, cleared when the
\* worker goes to sleep):
\*   polled      the poll loop ran: get_migration_status was called for
\*               every task that was tracked
\*   running     datasets for which has_running_migration returned True
\*   start_calls the remote_sync calls: dataset and destination position
\*   started     those of the calls that returned True
\*   refreshed   datasets for which update_destination_sync_times was called
\*   poll_errors datasets with a task whose status call failed (kept where
\*               the environment keeps the history)
\*   poll_failed the destinations of the graph with a task that answered
\*               failed or cancelled (kept likewise)
NoSyncLog ==
    [ polled |-> FALSE, running |-> {}, start_calls |-> {}, started |-> {},
      refreshed |-> {}, poll_errors |-> {}, poll_failed |-> {} ]

\* No progress logged; and, outside the specifications that look at them, no
\* remote snapshot listed, no cleanup call, no load in steps and no reader
NoCleanupLog ==
    [releases |-> {}, destroys |-> {}, runs |-> 0,
     release_failed |-> FALSE, destroy_failed |-> FALSE]
NoLoading == [step |-> "idle"]
NoObservation == [read |-> FALSE]
InitRest ==
    /\ last_progress_log = {}
    /\ last_completed = {}
    /\ zfs_snapshots = <<>>
    /\ cleanup_log = NoCleanupLog
    /\ loading = NoLoading
    /\ observed = NoObservation

\* BackupConfig.__init__ and backup_server.__init__ on the file's content
InitFrom(src) ==
    LET r == load_config([server |-> NoConfig, api |-> NoConfig, datasets |-> <<>>], src)
    IN  /\ server = r.server
        /\ api = r.api
        /\ datasets = r.datasets
        /\ settings = r.server
        /\ active_migrations = <<>>
        /\ interrupt = FALSE
        /\ pc = "reload"
        /\ idx = 0
        /\ backup_dataset = Unbound
        /\ completed_datasets = {}
        /\ clock = 0
        /\ backup_log = NewBackupLog(r.report)
        /\ sync_log = NoSyncLog
        /\ InitRest

InitIn(E) == \E src \in E.init_sources : InitFrom(src)

----------------------------------------------------------------------------
(* run(): one action per step of the loop body                             *)

\* self.reload_config(), with the file holding src
ReloadFrom(src) ==
    /\ pc = "reload"
    /\ ~interrupt
    /\ LET r == load_config([server |-> server, api |-> api, datasets |-> datasets], src)
       IN  /\ server' = r.server
           /\ api' = r.api
           /\ datasets' = r.datasets
           /\ backup_log' = NewBackupLog(r.report)
           /\ active_migrations' = reload_references(active_migrations, r.datasets, r.swapped)
           /\ last_completed' = still_configured(last_completed, r.datasets)
           /\ pc' = IF Len(r.datasets) = 0 THEN "snapshot" ELSE "backup"
           /\ idx' = IF Len(r.datasets) = 0 THEN 0 ELSE 1
    /\ UNCHANGED <<settings, interrupt, backup_dataset, completed_datasets, clock, sync_log>>
    /\ UNCHANGED <<last_progress_log, cleanup_vars, swap_vars>>

Reload(E) == \E src \in E.sources : ReloadFrom(src)

\* Where the backup loop goes after the dataset at position i
AfterDataset(i) ==
    /\ pc' = IF i < Len(datasets) THEN "backup" ELSE "snapshot"
    /\ idx' = IF i < Len(datasets) THEN i + 1 ELSE 0

\* cleanup_dataset: get_holds and autoremove list the snapshots outside any
\* try, so the call either returns or raises
CleanupOutcomes == {"returns", "raises"}

\* One iteration of "for backup_dataset in get_datasets_for_backup()"
BackupStep(E) ==
    /\ pc = "backup"
    /\ LET i == idx
           schedule_ok == check_schedule(settings, clock)
       IN  IF ~schedule_ok
           THEN /\ backup_dataset' = Bound(datasets[i])
                /\ backup_log' = [backup_log EXCEPT !.visited = @ \cup {i},
                                                    !.schedule = @ \cup {FALSE}]
                /\ AfterDataset(i)
                /\ UNCHANGED datasets
           ELSE \E answer \in SnapshotAnswers(E, clock), outcome \in E.cleanup :
                /\ datasets' = [datasets EXCEPT
                        ![i].last_snapshot_time = get_backup_snapshots(answer)]
                /\ backup_dataset' = Bound(datasets'[i])
                /\ IF outcome = "raises"
                   THEN /\ backup_log' = [backup_log EXCEPT !.visited = @ \cup {i},
                                                            !.schedule = @ \cup {TRUE},
                                                            !.raised = TRUE]
                        /\ pc' = "except"
                        /\ idx' = 0
                   ELSE /\ backup_log' = [backup_log EXCEPT !.visited = @ \cup {i},
                                                            !.schedule = @ \cup {TRUE},
                                                            !.cleaned = @ \cup {i}]
                        /\ AfterDataset(i)
    /\ UNCHANGED <<server, api, settings, active_migrations, interrupt,
                   completed_datasets, clock, sync_log>>
    /\ UNCHANGED <<last_progress_log, cleanup_vars, swap_vars, last_completed>>

\* snapshot_auto, with zfs.set before it: rc 0 ("created"); rc 1, or zfs.set
\* raises and the except around the call catches it ("failed")
SnapshotOutcomes == {"created", "failed"}

\* "now = datetime.utcnow()" and the block after it, which uses the loop
\* variable as the for loop left it
SnapshotStep ==
    /\ pc = "snapshot"
    /\ IF backup_dataset = Unbound
       THEN /\ pc' = "except"
            /\ backup_log' = [backup_log EXCEPT !.raised = TRUE]
       ELSE LET tag == select_tag(backup_dataset.last_snapshot_time, clock,
                                  settings.backup_interval)
            IN  /\ pc' = "sync"
                /\ IF backup_dataset.active /\ tag # "none"
                   THEN \E outcome \in SnapshotOutcomes :
                        backup_log' = [backup_log EXCEPT !.snapshots = @ \cup
                                        {[ dataset |-> backup_dataset.local_dataset,
                                           tag |-> tag, outcome |-> outcome ]}]
                   ELSE UNCHANGED backup_log
    /\ UNCHANGED <<server, api, datasets, settings, active_migrations, interrupt, idx,
                   backup_dataset, completed_datasets, clock, sync_log>>
    /\ UNCHANGED <<last_progress_log, cleanup_vars, swap_vars, last_completed>>

\* The poll loop of remote_sync_async and the removal of the completed
\* tasks, with answers[t] the answer to the status poll of task t
PollTasks(answers) ==
    /\ active_migrations' = remove_completed(active_migrations, answers)
    /\ last_progress_log' = log_progress(last_progress_log, active_migrations, answers)
    /\ completed_datasets' =
            { active_migrations[t].local_dataset :
                t \in completed_tasks(active_migrations, answers) }
    /\ datasets' = poll_graph(datasets, active_migrations, answers, clock)
    /\ idx' = NextRemote(datasets, 1)
    /\ pc' = IF NextRemote(datasets, 1) = 0 THEN "sleep" ELSE "start"

\* "if self.check_remote_sync_schedule(): self.remote_sync_async()", up to
\* the end of the poll loop and the removal of the completed tasks
SyncPoll(E) ==
    /\ pc = "sync"
    /\ IF ~check_remote_sync_schedule(settings, clock)
       THEN /\ pc' = "sleep"
            /\ UNCHANGED <<datasets, active_migrations, completed_datasets, idx,
                           last_progress_log, sync_log, last_completed>>
       ELSE /\ \E answers \in [DOMAIN active_migrations -> E.polls] :
                /\ PollTasks(answers)
                /\ last_completed' =
                        IF E.history
                        THEN still_configured(
                                record_completed(last_completed, active_migrations,
                                                 answers, clock), datasets)
                        ELSE last_completed
                /\ sync_log' = [sync_log EXCEPT
                        !.polled = TRUE,
                        !.poll_errors =
                            IF E.history
                            THEN { active_migrations[t].local_dataset :
                                    t \in {u \in DOMAIN active_migrations :
                                                answers[u] = "error"} }
                            ELSE {},
                        !.poll_failed =
                            IF E.history
                            THEN { [dataset |-> active_migrations[t].local_dataset,
                                    dest |-> active_migrations[t].dest] :
                                    t \in {u \in DOMAIN active_migrations :
                                                /\ active_migrations[u].live
                                                /\ answers[u] \in {"failed", "cancelled"}} }
                            ELSE {}]
    /\ backup_log' = NoBackupLog
    /\ UNCHANGED <<server, api, settings, interrupt, backup_dataset, clock>>
    /\ UNCHANGED <<cleanup_vars, swap_vars>>

\* A remote_sync that forgets the sync time when the start fails
remote_sync_forgets(destination, task_id) ==
    IF task_id # NoTask
    THEN [destination EXCEPT !.current_task_id = task_id]
    ELSE [destination EXCEPT !.last_sync_time = NoTime]

\* remote_sync on a destination, task_id being result.task_id (NoTask: the
\* start returned no task id, or adaptive_send raised): the function writes
\* to the destination only when it has a task id
remote_sync(destination, task_id) ==
    IF task_id # NoTask
    THEN [destination EXCEPT !.current_task_id = task_id]
    ELSE destination

\* An inner loop without the break after a start
calls_without_break(try, started) == try

\* The remote_sync calls of the inner loop when the call for try[started]
\* is the first that returns True (0: none does): the break ends the loop
calls_made(try, started) ==
    IF started = 0 THEN try ELSE SubSeq(try, 1, started)

\* One iteration of "for backup_dataset in get_datasets_with_remote_sync()".
\* started = 0: every remote_sync call fails; started = k: the calls for the
\* first k - 1 due destinations fail and the k-th returns a task id.
SyncStart(E) ==
    /\ pc = "start"
    /\ \E holds \in HoldAnswers(E, clock), answer \in RunningAnswers :
        LET i == idx
            name == datasets[i].local_dataset
            ds == IF name \notin completed_datasets
                  THEN update_destination_sync_times(datasets[i], holds)
                  ELSE datasets[i]
            running == has_running_migration(answer)
            try == destinations_to_try(ds, running, clock, settings.remote_sync_interval)
        IN  \E started \in 0..Len(try) :
            /\ started # 0 => E.starts /\ FreeTasks # {}
            /\ LET called == calls_made(try, started)
                   task == CHOOSE t \in FreeTasks : \A u \in FreeTasks : t <= u
               IN  /\ sync_log' = [sync_log EXCEPT
                            !.refreshed = IF name \notin completed_datasets
                                          THEN @ \cup {name} ELSE @,
                            !.running = IF running THEN @ \cup {name} ELSE @,
                            !.start_calls = @ \cup
                                {[dataset |-> name, dest |-> called[k]] :
                                    k \in 1..Len(called)},
                            !.started = IF started = 0 THEN @
                                        ELSE @ \cup {[dataset |-> name, dest |-> try[started]]}]
                   /\ datasets' = [datasets EXCEPT ![i] =
                        [ds EXCEPT !.destinations =
                            [j \in 1..Len(ds.destinations) |->
                                IF started # 0 /\ j = try[started]
                                THEN remote_sync(ds.destinations[j], task)
                                ELSE IF \E k \in 1..Len(called) : called[k] = j
                                THEN remote_sync(ds.destinations[j], NoTask)
                                ELSE ds.destinations[j]]]]
                   /\ IF started = 0
                      THEN UNCHANGED active_migrations
                      ELSE active_migrations' =
                                [t \in DOMAIN active_migrations \cup {task} |->
                                    IF t = task THEN LiveRef(datasets, i, try[started])
                                    ELSE active_migrations[t]]
            /\ idx' = NextRemote(datasets, i + 1)
            /\ pc' = IF NextRemote(datasets, i + 1) = 0 THEN "sleep" ELSE "start"
    /\ UNCHANGED <<server, api, settings, interrupt, backup_dataset, completed_datasets,
                   clock, backup_log>>
    /\ UNCHANGED <<last_progress_log, cleanup_vars, swap_vars, last_completed>>

\* An except clause that lets the exception end run()
ExceptHandlerExits ==
    /\ pc = "except"
    /\ pc' = "done"
    /\ backup_log' = NoBackupLog
    /\ UNCHANGED <<server, api, datasets, settings, active_migrations, interrupt, idx,
                   backup_dataset, completed_datasets, clock, sync_log>>
    /\ UNCHANGED <<last_progress_log, cleanup_vars, swap_vars, last_completed>>

\* The except clause of run(): the health check, and one of two messages
ExceptHandler ==
    /\ pc = "except"
    /\ \E api_available \in BOOLEAN : pc' = "sleep"
    /\ backup_log' = NoBackupLog
    /\ UNCHANGED <<server, api, datasets, settings, active_migrations, interrupt, idx,
                   backup_dataset, completed_datasets, clock, sync_log>>
    /\ UNCHANGED <<last_progress_log, cleanup_vars, swap_vars, last_completed>>

\* time.sleep(self.backup_interval / 10), and back to the head of the loop
Sleep ==
    /\ pc = "sleep"
    /\ \E d \in {0, 1} :
        /\ clock + d <= MaxTime
        /\ clock' = clock + d
        /\ last_completed' = younger_than(last_completed, clock + d,
                                          settings.remote_sync_interval)
    /\ pc' = "reload"
    /\ idx' = 0
    /\ completed_datasets' = {}
    /\ sync_log' = NoSyncLog
    /\ UNCHANGED <<server, api, datasets, settings, active_migrations, interrupt,
                   backup_dataset, backup_log>>
    /\ UNCHANGED <<last_progress_log, cleanup_vars, swap_vars>>

\* "while not self.interrupt" finds the flag set
Exit ==
    /\ pc = "reload"
    /\ interrupt
    /\ pc' = "done"
    /\ UNCHANGED <<server, api, datasets, settings, active_migrations, interrupt, idx,
                   backup_dataset, completed_datasets, clock, backup_log, sync_log>>
    /\ UNCHANGED <<last_progress_log, cleanup_vars, swap_vars, last_completed>>

\* Another thread sets backup_server.interrupt.  The flag is read only at the
\* head of the loop, so the step is taken there, whenever it was set.
Interrupt ==
    /\ pc = "reload"
    /\ ~interrupt
    /\ interrupt' = TRUE
    /\ UNCHANGED <<server, api, datasets, settings, active_migrations, pc, idx,
                   backup_dataset, completed_datasets, clock, backup_log, sync_log>>
    /\ UNCHANGED <<last_progress_log, cleanup_vars, swap_vars, last_completed>>

\* The worker's steps, with the environment E giving the answers
Worker(E) ==
    \/ Reload(E)
    \/ BackupStep(E)
    \/ SnapshotStep
    \/ SyncPoll(E)
    \/ SyncStart(E)
    \/ ExceptHandler
    \/ Sleep
    \/ Exit

NextIn(E) == Worker(E) \/ Interrupt

----------------------------------------------------------------------------
(* Environments.  An environment names the file contents the reloads can   *)
(* meet and the answers the remote API can give:                           *)
(*   init_sources   the file at construction                               *)
(*   sources        the file at a reload                                   *)
(*   snapshot_times the times the snapshot listing can show as the last    *)
(*   cleanup        the outcomes of cleanup_dataset                        *)
(*   hold_times     the per-host times the holds can show                  *)
(*   polls          the answers to a status poll                           *)
(*   starts         whether a migration start can return a task id         *)
(*   history        whether the completed polls are kept in last_completed *)
(* Env is the whole of it.  Its state space is the product of all the      *)
(* answers and is not enumerated; the specifications below each free the   *)
(* answers of the part of the loop they look at and pin the others to one  *)
(* answer the code treats like any other.                                  *)

Env ==
    [ init_sources |-> Sources,
      sources |-> Sources,
      snapshot_times |-> {NoTime} \cup Times,
      cleanup |-> CleanupOutcomes,
      hold_times |-> {NoTime} \cup Times,
      polls |-> PollAnswers,
      starts |-> TRUE,
      history |-> TRUE ]

\* The backup half of the cycle: every source, listing and cleanup outcome;
\* no migration start returns a task id, and the holds show no sync time.
BackupEnv ==
    [ Env EXCEPT !.hold_times = {NoTime}, !.starts = FALSE, !.history = FALSE ]

\* The migration tracker: every hold and start answer and every poll answer
\* but "running" (a pending task stays in flight as a running one does),
\* under the policies of DocA and DocC; the snapshot listings show no backup
\* snapshot.
SyncEnv ==
    [ Env EXCEPT !.init_sources = {DocA, DocC},
                 !.sources = {DocA, DocB, NoDoc("yaml_error")},
                 !.snapshot_times = {NoTime},
                 !.polls = PollAnswers \ {"running"},
                 !.history = FALSE ]

\* The poll loop: every poll answer, under the one configuration DocA, the
\* reloads reading DocA or a file that does not parse; the listings show no
\* backup snapshot and the holds no sync time.
PollEnv ==
    [ Env EXCEPT !.init_sources = {DocA},
                 !.sources = {DocA, NoDoc("yaml_error")},
                 !.snapshot_times = {NoTime},
                 !.hold_times = {NoTime},
                 !.history = FALSE ]

\* The reloader: every source at a reload, with tasks in flight that stay
\* running, complete or fail; the listings show no backup snapshot and the
\* holds no sync time.
ReloadEnv ==
    [ Env EXCEPT !.init_sources = {DocA},
                 !.snapshot_times = {NoTime},
                 !.hold_times = {NoTime},
                 !.polls = {"running", "completed", "failed"},
                 !.history = FALSE ]

\* The due check across reloads: the documents DocA and DocB, which name the
\* remote dataset of tank/a -> h1 in two ways, with tasks that stay running,
\* complete or fail and the history of the completed polls
DueEnv ==
    [ Env EXCEPT !.init_sources = {DocA},
                 !.sources = {DocA, DocB},
                 !.snapshot_times = {NoTime},
                 !.hold_times = {NoTime},
                 !.polls = {"running", "completed", "failed"} ]

\* The refresh of the sync times: the one configuration DocB with its two
\* datasets, tasks that end in any of the ways the poll loop tells apart or
\* whose status call fails, holds with or without a sync time, and the
\* history of the polls
RefreshEnv ==
    [ Env EXCEPT !.init_sources = {DocB},
                 !.sources = {DocB},
                 !.snapshot_times = {NoTime},
                 !.polls = {"completed", "failed", "cancelled", "error"} ]

\* The progress of the start loop: the one configuration DocA with its two
\* destinations of tank/a, every task ending at its next poll as completed,
\* failed or cancelled; the holds show no sync time
FairEnv ==
    [ Env EXCEPT !.init_sources = {DocA},
                 !.sources = {DocA},
                 !.snapshot_times = {NoTime},
                 !.hold_times = {NoTime},
                 !.polls = {"completed", "failed", "cancelled"},
                 !.history = FALSE ]

Spec == InitIn(Env) /\ [][NextIn(Env)]_vars
SpecBackup == InitIn(BackupEnv) /\ [][NextIn(BackupEnv)]_vars
SpecSync == InitIn(SyncEnv) /\ [][NextIn(SyncEnv)]_vars
SpecPoll == InitIn(PollEnv) /\ [][NextIn(PollEnv)]_vars
SpecDue == InitIn(DueEnv) /\ [][NextIn(DueEnv)]_vars
SpecRefresh == InitIn(RefreshEnv) /\ [][NextIn(RefreshEnv)]_vars
SpecReload == InitIn(ReloadEnv) /\ [][NextIn(ReloadEnv)]_vars


----------------------------------------------------------------------------
(* cleanup_dataset on the snapshots and holds of one dataset               *)

\* A snapshot of the remote listing: id is its place in the chronological
\* order, tier the retention token its name carries ("none": no token),
\* holds the tags snapshot_holds_list returns, in order.
\* A hold tag "sync_<time>_<host>", and a tag that does not start with sync_
SyncTag(t, h) == [kind |-> "sync", time |-> t, host |-> h]
OtherTag == [kind |-> "other", time |-> 0, host |-> None]
HoldTags == {SyncTag(1, "h1"), SyncTag(2, "h1"), SyncTag(1, "h2")}
HoldLists ==
    {<<>>, <<OtherTag>>} \cup {<<a>> : a \in HoldTags}
        \cup {p \in {<<a, b>> : a \in HoldTags, b \in HoldTags} : p[1] # p[2]}
SnapshotTiers == {"frequent", "hourly", "none"}

\* A listing of n snapshots, oldest first.  Of a snapshot's name the model
\* keeps the tier token it contains (tier; "none": no token of the policy)
\* and whether it has the shape <tier>_backup_<timestamp> (backup).
NamedListing(n, f) ==
    [i \in 1..n |-> [id |-> i, tier |-> f[i][1], holds |-> f[i][2], backup |-> f[i][3]]]

\* A listing in which the names with a tier token are the backup snapshots
Listing(n, f) ==
    NamedListing(n, [i \in 1..n |-> <<f[i][1], f[i][2], f[i][1] # "none">>])

\* A policy whose retention map is reached by a listing of MaxSnaps snapshots
RetentionDoc ==
    Doc([server |-> [retention |-> [frequent |-> 1, hourly |-> 2]],
         datasets |-> DatasetsA])

\* ServerConfig.get_cleanup_tags, for the tiers of the listings
get_cleanup_tags(self) ==
    [tier \in {"frequent", "hourly"} |->
        IF tier = "frequent" THEN self.keep_frequent ELSE self.keep_hourly]

\* hosts[host] of cleanup_dataset: the snapshots that carry a sync hold of
\* the host, in listing order, each with the last such tag of its list
\* (hosts[host][snap] = tag overwrites an earlier tag of the same snapshot)
is_sync_of(tag, host) == tag.kind = "sync" /\ tag.host = host
held_for(snaps, host) ==
    SelectSeq(snaps, LAMBDA snap : \E k \in 1..Len(snap.holds) : is_sync_of(snap.holds[k], host))
last_tag(snap, host) ==
    snap.holds[CHOOSE k \in 1..Len(snap.holds) :
                /\ is_sync_of(snap.holds[k], host)
                /\ \A m \in (k + 1)..Len(snap.holds) : ~is_sync_of(snap.holds[m], host)]

\* "Keep only latest sync hold per remote host": the zfs.release calls
release_calls(snaps) ==
    UNION { { [snap |-> held_for(snaps, host)[i].id,
               tag |-> last_tag(held_for(snaps, host)[i], host)] :
                i \in 1..(Len(held_for(snaps, host)) - 1) } :
            host \in {h \in {"h1", "h2"} :
                        \E i \in 1..Len(snaps) : \E k \in 1..Len(snaps[i].holds) :
                            is_sync_of(snaps[i].holds[k], h)} }

\* An autoremove that deletes from the end of the list
autoremove_newest(snaps, tags) ==
    UNION { LET tag_snaps == SelectSeq(snaps, LAMBDA snap : snap.tier = tag)
                keep == tags[tag]
            IN  IF Len(tag_snaps) > keep
                THEN {tag_snaps[i].id : i \in (keep + 1)..Len(tag_snaps)}
                ELSE {} : tag \in DOMAIN tags }

\* ZFSAPIClient.autoremove with tags: the snapshot_destroy calls
autoremove(snaps, tags) ==
    UNION { LET tag_snaps == SelectSeq(snaps, LAMBDA snap : snap.tier = tag)
                keep == tags[tag]
            IN  IF Len(tag_snaps) > keep
                THEN {tag_snaps[i].id : i \in 1..(Len(tag_snaps) - keep)}
                ELSE {} : tag \in DOMAIN tags }

\* The listing after the releases and destroys that succeeded
released(snaps, calls) ==
    [i \in 1..Len(snaps) |->
        [snaps[i] EXCEPT !.holds =
            SelectSeq(@, LAMBDA tag : [snap |-> snaps[i].id, tag |-> tag] \notin calls)]]
destroyed(snaps, ids) == SelectSeq(snaps, LAMBDA snap : snap.id \notin ids)

\* A loop that a failed call ends: the calls after it are not made
calls_until_failure(calls, ok_calls) == IF ok_calls = calls THEN calls ELSE ok_calls

\* The calls a loop of cleanup makes, of which those in ok_calls succeed:
\* release returns 1 on a failure and autoremove passes on it, so the loop
\* goes on to its end
calls_attempted(calls, ok_calls) == calls

\* cleanup_dataset for the dataset at the head of the backup loop; every
\* release and destroy call succeeds or fails (release returns 1, autoremove
\* swallows the error).  The log keeps the calls of this run, and whether a
\* release or a destroy of it failed.
CleanupRun ==
    /\ pc = "backup"
    /\ cleanup_log.runs < MaxRuns
    /\ LET releases == release_calls(zfs_snapshots)
           destroys == autoremove(zfs_snapshots, get_cleanup_tags(settings))
       IN  \E ok_releases \in SUBSET releases, ok_destroys \in SUBSET destroys :
            /\ zfs_snapshots' = destroyed(released(zfs_snapshots, ok_releases), ok_destroys)
            /\ cleanup_log' = [ releases |-> calls_attempted(releases, ok_releases),
                                destroys |-> calls_attempted(destroys, ok_destroys),
                                runs |-> cleanup_log.runs + 1,
                                release_failed |-> ok_releases # releases,
                                destroy_failed |-> ok_destroys # destroys ]
    /\ UNCHANGED <<server, api, datasets, settings, active_migrations, interrupt, pc, idx,
                   backup_dataset, completed_datasets, clock, backup_log, sync_log,
                   last_progress_log, swap_vars, last_completed>>

\* The worker at the head of the backup loop, the remote API holding any of
\* the listings for the dataset
InitCleanup ==
    \E n \in 0..MaxSnaps : \E f \in [1..n -> SnapshotTiers \X HoldLists] :
        LET listing == Listing(n, f)
            r == load_config([server |-> NoConfig, api |-> NoConfig, datasets |-> <<>>],
                             RetentionDoc)
        IN  /\ server = r.server
            /\ api = r.api
            /\ datasets = r.datasets
            /\ settings = r.server
            /\ active_migrations = <<>>
            /\ interrupt = FALSE
            /\ pc = "backup"
            /\ idx = 1
            /\ backup_dataset = Unbound
            /\ completed_datasets = {}
            /\ clock = 0
            /\ backup_log = NewBackupLog("ok")
            /\ sync_log = NoSyncLog
            /\ last_progress_log = {}
            /\ last_completed = {}
            /\ zfs_snapshots = listing
            /\ cleanup_log = NoCleanupLog
            /\ loading = NoLoading
            /\ observed = NoObservation

SpecCleanup == InitCleanup /\ [][CleanupRun]_vars

\* The worker at the head of the backup loop, the dataset holding snapshots
\* of any name: with or without a tier token, of the backup shape or not
InitPrune ==
    \E n \in 0..MaxSnaps :
    \E f \in [1..n -> SnapshotTiers \X {<<>>, <<SyncTag(1, "h1")>>} \X BOOLEAN] :
        LET listing == NamedListing(n, f)
            r == load_config([server |-> NoConfig, api |-> NoConfig, datasets |-> <<>>],
                             RetentionDoc)
        IN  /\ server = r.server
            /\ api = r.api
            /\ datasets = r.datasets
            /\ settings = r.server
            /\ active_migrations = <<>>
            /\ interrupt = FALSE
            /\ pc = "backup"
            /\ idx = 1
            /\ backup_dataset = Unbound
            /\ completed_datasets = {}
            /\ clock = 0
            /\ backup_log = NewBackupLog("ok")
            /\ sync_log = NoSyncLog
            /\ last_progress_log = {}
            /\ last_completed = {}
            /\ zfs_snapshots = listing
            /\ cleanup_log = NoCleanupLog
            /\ loading = NoLoading
            /\ observed = NoObservation

SpecPrune == InitPrune /\ [][CleanupRun]_vars

----------------------------------------------------------------------------
(* load_config statement by statement, with a reader in another thread     *)

\* The reloads of the swap study read any of the four documents, a file
\* that does not parse or no file; no snapshot, no sync and no task so far
SwapEnv ==
    [ Env EXCEPT !.init_sources = {DocB},
                 !.sources = {DocA, DocB, DocC, DocD, NoDoc("yaml_error"), MissingSource},
                 !.snapshot_times = {NoTime},
                 !.cleanup = {"returns"},
                 !.hold_times = {NoTime},
                 !.polls = {"completed"},
                 !.starts = FALSE,
                 !.history = FALSE ]

\* The attributes of BackupConfig that load_config assigns
Attributes(s, a, d) == [server |-> s, api |-> a, datasets |-> d]

\* load_config up to its first assignment to an attribute: the file is read
\* and the new objects are built, runtime state copied, while self.server,
\* self.api and self.datasets still hold the old objects
LoadBegin(E) ==
    /\ pc = "reload"
    /\ ~interrupt
    /\ loading.step = "idle"
    /\ \E src \in E.sources :
        LET r == load_config(Attributes(server, api, datasets), src)
        IN  loading' = [ step |-> "server",
                         old |-> Attributes(server, api, datasets),
                         new |-> Attributes(r.server, r.api, r.datasets),
                         report |-> r.report,
                         swapped |-> r.swapped ]
    /\ UNCHANGED <<server, api, datasets, settings, active_migrations, interrupt, pc, idx,
                   backup_dataset, completed_datasets, clock, backup_log, sync_log,
                   last_progress_log, cleanup_vars, observed, last_completed>>

\* "self.server = ..." (new_server, the default, or old_server restored)
AssignServer ==
    /\ loading.step = "server"
    /\ server' = loading.new.server
    /\ loading' = [loading EXCEPT !.step = "api"]
    /\ UNCHANGED <<api, datasets, settings, active_migrations, interrupt, pc, idx,
                   backup_dataset, completed_datasets, clock, backup_log, sync_log,
                   last_progress_log, cleanup_vars, observed, last_completed>>

\* "self.api = ..."
AssignApi ==
    /\ loading.step = "api"
    /\ api' = loading.new.api
    /\ loading' = [loading EXCEPT !.step = "datasets"]
    /\ UNCHANGED <<server, datasets, settings, active_migrations, interrupt, pc, idx,
                   backup_dataset, completed_datasets, clock, backup_log, sync_log,
                   last_progress_log, cleanup_vars, observed, last_completed>>

\* "self.datasets = ..." (the missing-file branch returns without it), the
\* last assignment of load_config
AssignDatasets ==
    /\ loading.step = "datasets"
    /\ datasets' = loading.new.datasets
    /\ loading' = [loading EXCEPT !.step = "references"]
    /\ UNCHANGED <<server, api, settings, active_migrations, interrupt, pc, idx,
                   backup_dataset, completed_datasets, clock, backup_log, sync_log,
                   last_progress_log, cleanup_vars, observed, last_completed>>

\* The rest of backup_server.reload_config: the references of the tracked
\* tasks; the reload is over and the worker enters the backup loop
LoadEnd ==
    /\ loading.step = "references"
    /\ active_migrations' = reload_references(active_migrations, datasets, loading.swapped)
    /\ backup_log' = NewBackupLog(loading.report)
    /\ pc' = IF Len(datasets) = 0 THEN "snapshot" ELSE "backup"
    /\ idx' = IF Len(datasets) = 0 THEN 0 ELSE 1
    /\ loading' = NoLoading
    /\ observed' = NoObservation
    /\ UNCHANGED <<server, api, datasets, settings, interrupt, backup_dataset,
                   completed_datasets, clock, sync_log, last_progress_log, cleanup_vars>>
    /\ last_completed' = still_configured(last_completed, datasets)

\* A thread that shares the BackupConfig reads its attributes while the
\* worker is inside load_config
Read ==
    /\ loading.step \in {"server", "api", "datasets", "references"}
    /\ ~observed.read
    /\ observed' = [ read |-> TRUE, server |-> server, api |-> api, datasets |-> datasets ]
    /\ UNCHANGED <<server, api, datasets, settings, active_migrations, interrupt, pc, idx,
                   backup_dataset, completed_datasets, clock, backup_log, sync_log,
                   last_progress_log, cleanup_vars, loading, last_completed>>

\* The worker outside load_config waits for no one
WorkerSwap(E) ==
    \/ LoadBegin(E)
    \/ AssignServer
    \/ AssignApi
    \/ AssignDatasets
    \/ LoadEnd
    \/ BackupStep(E)
    \/ SnapshotStep
    \/ SyncPoll(E)
    \/ SyncStart(E)
    \/ ExceptHandler
    \/ Sleep
    \/ Exit

NextSwap(E) == WorkerSwap(E) \/ Read \/ (loading.step = "idle" /\ Interrupt)

SpecSwap == InitIn(SwapEnv) /\ [][NextSwap(SwapEnv)]_vars

----------------------------------------------------------------------------
(* The snapshot block of run() on a wide range of times                    *)

\* Ticks on both sides of an interval, hour, day, week, month and year
\* boundary: 2025-12-31 23:50, 2026-01-01 00:00, 00:10, 00:20 and 01:00,
\* 2026-01-02 00:00, 2026-01-05 00:00 (a Monday), 2026-01-31 23:50 and
\* 2026-02-01 00:00.
TierTimes == {0, 1, 2, 3, 7, 145, 577, 4464, 4465}

\* The worker in front of "now = datetime.utcnow()", the loop having left
\* backup_dataset on a dataset whose last snapshot time is any of the times
InitTier ==
    \E src \in {DocA, DocC}, now \in TierTimes, last \in {NoTime} \cup TierTimes :
        LET r == load_config([server |-> NoConfig, api |-> NoConfig, datasets |-> <<>>], src)
        IN  /\ server = r.server
            /\ api = r.api
            /\ datasets = [r.datasets EXCEPT ![1].last_snapshot_time = last]
            /\ settings = r.server
            /\ active_migrations = <<>>
            /\ interrupt = FALSE
            /\ pc = "snapshot"
            /\ idx = 0
            /\ backup_dataset = Bound(datasets[1])
            /\ completed_datasets = {}
            /\ clock = now
            /\ backup_log = [NewBackupLog("ok") EXCEPT !.visited = {1}, !.schedule = {TRUE},
                                                       !.cleaned = {1}]
            /\ sync_log = NoSyncLog
            /\ InitRest

SpecTier == InitTier /\ [][SnapshotStep]_vars

----------------------------------------------------------------------------
(* The two window checks of run() on every weekday and hour                *)

\* The first tick of every hour of the week from 2026-01-01 to 2026-01-07
WeekHours == {1 + 6 * h : h \in 0..167}

\* Policies with open and closed days and hours in both pairs of masks
MaskedServerA ==
    [ schedule |-> [ days |-> <<"1", "0", "1", "0", "1", "0", "1">>,
                     hours |-> [i \in 1..24 |-> IF i % 2 = 1 THEN "1" ELSE "0"] ],
      remote_sync |-> [ enabled |-> TRUE,
                        days |-> <<"0", "1", "1", "0", "0", "1", "1">>,
                        hours |-> [i \in 1..24 |-> IF i <= 12 THEN "1" ELSE "0"] ] ]
MaskedServerB ==
    [ schedule |-> [ days |-> <<"0", "1", "1", "1", "0", "1", "0">>,
                     hours |-> [i \in 1..24 |-> IF i % 3 = 0 THEN "0" ELSE "1"] ],
      remote_sync |-> [ enabled |-> FALSE ] ]

MaskedSources ==
    { Doc([server |-> MaskedServerA, datasets |-> DatasetsA]),
      Doc([server |-> MaskedServerB, datasets |-> DatasetsA]),
      DocA }

\* No error from the remote API, no snapshot and no sync so far
WindowEnv ==
    [ Env EXCEPT !.init_sources = MaskedSources,
                 !.sources = MaskedSources,
                 !.snapshot_times = {NoTime},
                 !.cleanup = {"returns"},
                 !.hold_times = {NoTime},
                 !.history = FALSE ]

\* The worker at the head of the backup loop, at any hour of the week
InitWindow ==
    \E src \in WindowEnv.init_sources, now \in WeekHours :
        LET r == load_config([server |-> NoConfig, api |-> NoConfig, datasets |-> <<>>], src)
        IN  /\ server = r.server
            /\ api = r.api
            /\ datasets = r.datasets
            /\ settings = r.server
            /\ active_migrations = <<>>
            /\ interrupt = FALSE
            /\ pc = "backup"
            /\ idx = 1
            /\ backup_dataset = Unbound
            /\ completed_datasets = {}
            /\ clock = now
            /\ backup_log = NewBackupLog("ok")
            /\ sync_log = NoSyncLog
            /\ InitRest

SpecWindow ==
    InitWindow /\ [][BackupStep(WindowEnv) \/ SnapshotStep \/ SyncPoll(WindowEnv)]_vars

\* The worker thread runs: a step of the loop body that can be taken is
\* taken (every call of the body returns or raises, and the sleep ends).
SpecLive == SpecBackup /\ WF_vars(Worker(BackupEnv))

\* The same for the worker that starts and polls migrations
SpecFair == InitIn(FairEnv) /\ [][NextIn(FairEnv)]_vars /\ WF_vars(Worker(FairEnv))

----------------------------------------------------------------------------
(* Properties                                                              *)

\* The destinations of a graph, as (dataset, destination) positions
Positions(graph) ==
    UNION {{<<i, j>> : j \in 1..Len(graph[i].destinations)} : i \in 1..Len(graph)}

\* C1: active_migrations holds at most one task for any one dataset, and no
\* destination is referenced by two tracked task ids.
C1_OneTaskPerDataset ==
    \A t, u \in DOMAIN active_migrations :
        t # u =>
            /\ active_migrations[t].local_dataset # active_migrations[u].local_dataset
            /\ ~ /\ active_migrations[t].live
                 /\ active_migrations[u].live
                 /\ active_migrations[t].ds = active_migrations[u].ds
                 /\ active_migrations[t].dest = active_migrations[u].dest

\* C2: in a cycle in which has_running_migration returned True for a
\* dataset, remote_sync is not called for any destination of that dataset.
C2_NoStartWhileRunning ==
    \A call \in sync_log.start_calls : call.dataset \notin sync_log.running

\* has_running_migration returned True for a dataset that has due destinations
C2_Witness ==
    /\ pc \in {"start", "sleep"}
    /\ \E i \in 1..Len(datasets) :
        /\ datasets[i].local_dataset \in sync_log.running
        /\ due_destinations(datasets[i], clock, settings.remote_sync_interval) # <<>>

\* C3: a successful reload in which a dataset of the same local name keeps
\* a destination with the same remote host and the same remote dataset name
\* leaves that destination's last_sync_time and current_task_id as they were
\* immediately before the reload.
C3_ReloadPreservesRuntimeState ==
    [][\A src \in ValidSources :
        ReloadFrom(src) =>
            \A old \in Positions(datasets), new \in Positions(datasets') :
                LET old_dest == datasets[old[1]].destinations[old[2]]
                    new_dest == datasets'[new[1]].destinations[new[2]]
                IN  /\ datasets[old[1]].local_dataset = datasets'[new[1]].local_dataset
                    /\ old_dest.remote_host = new_dest.remote_host
                    /\ old_dest.remote_dataset = new_dest.remote_dataset
                    => /\ new_dest.last_sync_time = old_dest.last_sync_time
                       /\ new_dest.current_task_id = old_dest.current_task_id]_vars

\* A successful reload has just carried a task id and a sync time over
C3_Witness ==
    /\ pc = "backup"
    /\ backup_log = NewBackupLog("ok")
    /\ \E p \in Positions(datasets) :
        datasets[p[1]].destinations[p[2]].current_task_id # NoTask
    /\ \E p \in Positions(datasets) :
        datasets[p[1]].destinations[p[2]].last_sync_time # NoTime

\* C4: a reload whose source is syntactically invalid, empty or of invalid
\* structure leaves the dataset list, with every destination's runtime
\* fields, and the server policy as they were, and reports the failure.
C4_InvalidReloadKeepsConfiguration ==
    [][\A src \in InvalidSources :
        ReloadFrom(src) =>
            /\ datasets' = datasets
            /\ server' = server
            /\ backup_log'.report = "failed"]_vars

\* A reload has just failed on a configuration that holds a running task
C4_Witness ==
    /\ pc = "backup"
    /\ backup_log = NewBackupLog("failed")
    /\ \E p \in Positions(datasets) :
        datasets[p[1]].destinations[p[2]].current_task_id # NoTask

\* C5: a reload at which the configuration file does not exist leaves the
\* server policy, the API settings and the dataset list untouched.
C5_MissingFileKeepsConfiguration ==
    [][ReloadFrom(MissingSource) => UNCHANGED <<server, api, datasets>>]_vars

\* C6: every tracked task whose dataset and destination identity (remote
\* host and effective remote dataset name) exist in the active configuration
\* references the objects of the active graph.
C6_TrackedTasksReferenceLiveObjects ==
    \A t \in DOMAIN active_migrations :
        LET ref == active_migrations[t]
        IN  (\E p \in Positions(datasets) :
                LET ds == datasets[p[1]]
                    dest == ds.destinations[p[2]]
                IN  /\ ds.local_dataset = ref.local_dataset
                    /\ dest.remote_host = ref.remote_host
                    /\ get_target_dataset(dest, ds.local_dataset)
                            = get_target_dataset(ref, ref.local_dataset))
            => ref.live

\* C7: when the processing of one dataset fails in a cycle, the remaining
\* datasets of the cycle are still processed: the backup loop is left only
\* after it has reached every dataset.
C7_FailureIsolation ==
    pc \in {"except", "sync"} =>
        \A i \in 1..Len(datasets) : i \in backup_log.visited

\* C8: the worker does not terminate on an error: run() ends only when the
\* interrupt flag is set, and from every step of a cycle, the except clause
\* included, the worker comes to the head of the loop again.
C8_WorkerKeepsCycling ==
    /\ [](pc = "done" => interrupt)
    /\ \A p \in {"backup", "snapshot", "sync", "start", "except", "sleep"} :
            (pc = p) ~> (pc = "reload")

\* An exception of the cycle has reached the except clause of run()
C8_Witness == pc = "except" /\ backup_log.raised

\* C9: in a cycle whose backup window is open, for every active dataset for
\* which the tier selection yields a tier, snapshot_auto is called with that
\* tier for that dataset.
C9_SnapshotForEveryDueDataset ==
    pc = "sync" /\ backup_log.schedule = {TRUE} =>
        \A i \in 1..Len(datasets) :
            LET tag == select_tag(datasets[i].last_snapshot_time, clock,
                                  settings.backup_interval)
            IN  datasets[i].active /\ tag # "none" =>
                    \E call \in backup_log.snapshots :
                        /\ call.dataset = datasets[i].local_dataset
                        /\ call.tag = tag

\* C10: in a cycle in which check_schedule reports the backup window closed,
\* no snapshot is created.
C10_NoSnapshotWhenWindowClosed ==
    pc = "sync" /\ FALSE \in backup_log.schedule =>
        \A call \in backup_log.snapshots : call.outcome # "created"

\* C11: after a successful reload the decisions of the cycle use the policy
\* the reload made active: the schedule results of the backup loop are those
\* of check_schedule on BackupConfig.server.
C11_DecisionsUseReloadedPolicy ==
    pc = "snapshot" /\ backup_log.report = "ok" /\ backup_log.visited # {} =>
        backup_log.schedule = {check_schedule(server, clock)}

\* The components compared by the tier selection, in the order of precedence
TierNames == <<"yearly", "monthly", "weekly", "daily", "hourly">>
Components(t) == <<strftime_Y(t), strftime_m(t), strftime_W(t), strftime_d(t), strftime_H(t)>>
Differing(last, now) == {k \in 1..5 : Components(last)[k] # Components(now)[k]}

\* The tier the selection has to yield for a last snapshot time and a time now
ExpectedTier(last, now, backup_interval) ==
    IF last = NoTime THEN "frequent"
    ELSE IF Differing(last, now) # {}
         THEN TierNames[CHOOSE k \in Differing(last, now) :
                            \A m \in Differing(last, now) : k <= m]
    ELSE IF total_seconds(now, last) > backup_interval THEN "frequent"
    ELSE "none"

\* C16: the tier selection yields exactly one tier or none: frequent without
\* a last snapshot; otherwise the tier of the first differing component in
\* the order year, month, week, day, hour; with no differing component,
\* frequent when now - last exceeds the backup interval, and none otherwise.
C16_TierSelection ==
    pc = "sync" =>
        {call.tag : call \in backup_log.snapshots} =
            LET tier == ExpectedTier(backup_dataset.last_snapshot_time, clock,
                                     settings.backup_interval)
            IN  IF tier = "none" THEN {} ELSE {tier}

\* The month decides although the week differs too
C16_Witness ==
    /\ pc = "sync"
    /\ 3 \in Differing(backup_dataset.last_snapshot_time, clock)
    /\ \E call \in backup_log.snapshots : call.tag = "monthly"

\* The weekday of a tick with 0 = Monday ... 6 = Sunday (2025-12-31 is a
\* Wednesday), and the characters of a pair of masks for a tick
Weekday(t) == (DayIndex(t) + 2) % 7
BothOpen(days, hours, t) ==
    days[Weekday(t) + 1] = "1" /\ hours[strftime_H(t) + 1] = "1"

\* C17: the backup-window check returns true iff days[weekday] and
\* hours[hour] are both '1'; the sync-window check returns true iff remote
\* sync is enabled and both sync mask characters are '1'.  (The worker goes
\* on to start migrations iff the sync-window check returned true.)
C17_WindowChecks ==
    /\ pc = "snapshot" =>
            backup_log.schedule = {BothOpen(settings.days, settings.hours, clock)}
    /\ pc = "start" =>
            /\ settings.remote_sync
            /\ BothOpen(settings.remote_sync_days, settings.remote_sync_hours, clock)
    /\ pc = "sleep" =>
            ~ /\ settings.remote_sync
              /\ BothOpen(settings.remote_sync_days, settings.remote_sync_hours, clock)

\* Both checks have returned true on a Sunday
C17_Witness ==
    /\ pc = "start"
    /\ Weekday(clock) = 6
    /\ BothOpen(settings.days, settings.hours, clock)

\* C19: a successful reload drops the runtime state of a destination that
\* is removed: a destination of the new graph that was not in the graph
\* before the reload (no destination of the same host and remote dataset
\* under a dataset of the same name), be it new or added again, has neither
\* a last_sync_time nor a current_task_id.
C19_RemovedDestinationStateDropped ==
    [][\A src \in ValidSources :
        ReloadFrom(src) =>
            \A new \in Positions(datasets') :
                LET new_ds == datasets'[new[1]]
                    new_dest == new_ds.destinations[new[2]]
                IN  (\A old \in Positions(datasets) :
                        ~ /\ datasets[old[1]].local_dataset = new_ds.local_dataset
                          /\ datasets[old[1]].destinations[old[2]].remote_host
                                = new_dest.remote_host
                          /\ datasets[old[1]].destinations[old[2]].remote_dataset
                                = new_dest.remote_dataset)
                    => /\ new_dest.last_sync_time = NoTime
                       /\ new_dest.current_task_id = NoTask]_vars

\* A successful reload has just removed a destination that held a task id,
\* and a reload after it has added the destination again
C19_Witness ==
    /\ pc = "backup"
    /\ backup_log = NewBackupLog("ok")
    /\ \E t \in DOMAIN active_migrations :
        /\ active_migrations[t].live
        /\ datasets[active_migrations[t].ds].destinations[active_migrations[t].dest]
                = [ remote_host |-> "h2", remote_dataset |-> None, enabled |-> TRUE,
                    last_sync_time |-> NoTime, current_task_id |-> NoTask ]

\* C20: when the poll of a tracked task returns completed, failed or
\* cancelled, then at the end of the polling phase the task id is not in
\* active_migrations, the current_task_id of its destination is None and
\* last_progress_log holds no entry for it.  (Of a destination object that
\* is not part of the active graph the model keeps no fields.)
C20_TerminalPollClearsTask ==
    [][pc = "sync" =>
        \A answers \in [DOMAIN active_migrations -> PollAnswers] :
            check_remote_sync_schedule(settings, clock) /\ PollTasks(answers) =>
                \A t \in DOMAIN active_migrations :
                    answers[t] \in {"completed", "failed", "cancelled"} =>
                        /\ t \notin DOMAIN active_migrations'
                        /\ t \notin last_progress_log'
                        /\ active_migrations[t].live =>
                            datasets'[active_migrations[t].ds]
                                .destinations[active_migrations[t].dest]
                                .current_task_id = NoTask]_vars

\* The polling phase has just dropped a task whose progress was logged, and
\* cleared the task id of its destination, while another task stays tracked
C20_Witness ==
    /\ pc \in {"start", "sleep"}
    /\ sync_log = [NoSyncLog EXCEPT !.polled = TRUE]
    /\ completed_datasets # {}
    /\ DOMAIN active_migrations # {}
    /\ last_progress_log = DOMAIN active_migrations
    /\ \E p \in Positions(datasets) :
        /\ datasets[p[1]].local_dataset \in completed_datasets
        /\ datasets[p[1]].destinations[p[2]].current_task_id = NoTask
        /\ datasets[p[1]].destinations[p[2]].last_sync_time = clock

----------------------------------------------------------------------------
(* Cleanup                                                                 *)

\* The sync holds of a host in a listing: <<snapshot id, tag>>
sync_holds(snaps, host) ==
    UNION { { <<snaps[i].id, snaps[i].holds[k]>> :
                k \in {m \in 1..Len(snaps[i].holds) : is_sync_of(snaps[i].holds[m], host)} } :
            i \in 1..Len(snaps) }

CleanupRan == cleanup_log'.runs = cleanup_log.runs + 1
SnapshotIds(snaps) == {snaps[i].id : i \in 1..Len(snaps)}

\* C12: after a cleanup whose release calls all succeeded, each host has at
\* most one sync hold on the snapshots of the dataset, however its holds
\* were spread over the snapshots.
C12_AtMostOneSyncHoldPerHost ==
    (cleanup_log.runs > 0 /\ ~cleanup_log.release_failed) =>
        \A host \in Hosts : Cardinality(sync_holds(zfs_snapshots, host)) <= 1

\* No snapshot carries two sync holds of one host
OneHoldPerSnapshot(snaps) ==
    \A host \in Hosts : \A i \in 1..Len(snaps) :
        Cardinality({k \in 1..Len(snaps[i].holds) : is_sync_of(snaps[i].holds[k], host)}) <= 1

\* C13: after a cleanup whose release calls all succeeded and that destroyed
\* no snapshot, every sync hold a host is left with carries the greatest
\* sync time among the holds the host had before, whatever the order in
\* which the holds sit on the snapshots (one hold of a host per snapshot).
C13_LatestSyncHoldSurvives ==
    [][(/\ CleanupRan
        /\ OneHoldPerSnapshot(zfs_snapshots)
        /\ ~cleanup_log'.release_failed
        /\ SnapshotIds(zfs_snapshots') = SnapshotIds(zfs_snapshots)) =>
            \A host \in Hosts :
                \A left \in sync_holds(zfs_snapshots', host) :
                    \A had \in sync_holds(zfs_snapshots, host) :
                        had[2].time <= left[2].time]_vars

\* The snapshots of a tier that have at least keep newer ones of the tier
excess(snaps, tier, keep) ==
    { snaps[i].id : i \in { j \in 1..Len(snaps) :
        /\ snaps[j].tier = tier
        /\ Cardinality({m \in (j + 1)..Len(snaps) : snaps[m].tier = tier}) >= keep } }

\* C14: a cleanup asks for the destruction of exactly the snapshots that
\* have, in their tier of the retention map, at least keep-count newer
\* snapshots: the oldest count - N of a tier with more than N, none of a
\* tier with at most N, none outside the map; when every destroy succeeds
\* the other snapshots are all still listed.
C14_RetentionPruning ==
    [][CleanupRan =>
        LET tags == get_cleanup_tags(settings)
            doomed == UNION {excess(zfs_snapshots, tier, tags[tier]) : tier \in DOMAIN tags}
        IN  /\ cleanup_log'.destroys = doomed
            /\ \A tier \in DOMAIN tags :
                    LET of_tier == {j \in 1..Len(zfs_snapshots) : zfs_snapshots[j].tier = tier}
                    IN  Cardinality(cleanup_log'.destroys \cap {zfs_snapshots[j].id : j \in of_tier})
                            = IF Cardinality(of_tier) > tags[tier]
                              THEN Cardinality(of_tier) - tags[tier] ELSE 0
            /\ ~cleanup_log'.destroy_failed =>
                    SnapshotIds(zfs_snapshots') = SnapshotIds(zfs_snapshots) \ doomed]_vars

\* Three hourly snapshots under keep-count 2: the oldest was destroyed
C14_Witness ==
    /\ cleanup_log.runs = 1
    /\ cleanup_log.destroys = {1}
    /\ ~cleanup_log.destroy_failed
    /\ Len(zfs_snapshots) = 2
    /\ \A i \in 1..2 : zfs_snapshots[i].tier = "hourly" /\ zfs_snapshots[i].id = i + 1

\* C15: a cleanup that follows a cleanup whose releases and destroys all
\* succeeded issues no release and no destroy.
C15_CleanupIdempotent ==
    [][(/\ CleanupRan
        /\ cleanup_log.runs > 0
        /\ ~cleanup_log.release_failed
        /\ ~cleanup_log.destroy_failed) =>
            cleanup_log'.releases = {} /\ cleanup_log'.destroys = {}]_vars

----------------------------------------------------------------------------
(* The swap of load_config                                                 *)

\* C18: what a reader sees of the configuration while a reload is under way
\* is the old policy with the old dataset graph or the new policy with the
\* new dataset graph (runtime fields migrated), never one of each.
C18_ReaderSeesOldOrNew ==
    observed.read =>
        \/ observed.server = loading.old.server /\ observed.datasets = loading.old.datasets
        \/ observed.server = loading.new.server /\ observed.datasets = loading.new.datasets

----------------------------------------------------------------------------
(* The tracking of migration tasks                                         *)

\* C21: when the status call for a tracked task fails (get_migration_status
\* hands back the "error" dict), the polling phase of that cycle removes the
\* task from active_migrations and sets the current_task_id of its
\* destination to None, last_sync_time staying as it was.
C21_PollErrorIsTerminal ==
    [][pc = "sync" =>
        \A answers \in [DOMAIN active_migrations -> PollAnswers] :
            check_remote_sync_schedule(settings, clock) /\ PollTasks(answers) =>
                \A t \in DOMAIN active_migrations :
                    answers[t] = "error" =>
                        /\ t \notin DOMAIN active_migrations'
                        /\ active_migrations[t].live =>
                            LET i == active_migrations[t].ds
                                j == active_migrations[t].dest
                            IN  /\ datasets'[i].destinations[j].current_task_id = NoTask
                                /\ datasets'[i].destinations[j].last_sync_time
                                        = datasets[i].destinations[j].last_sync_time]_vars


\* C22: a successful reload after which no destination of the configuration
\* has the dataset, remote host and effective remote dataset of a tracked
\* task removes that task from active_migrations.
C22_VanishedTaskAbandoned ==
    [][\A src \in ValidSources :
        ReloadFrom(src) =>
            \A t \in DOMAIN active_migrations :
                LET ref == active_migrations[t]
                IN  (\A p \in Positions(datasets') :
                        ~ /\ datasets'[p[1]].local_dataset = ref.local_dataset
                          /\ datasets'[p[1]].destinations[p[2]].remote_host = ref.remote_host
                          /\ get_target_dataset(datasets'[p[1]].destinations[p[2]],
                                                datasets'[p[1]].local_dataset)
                                = get_target_dataset(ref, ref.local_dataset))
                    => t \notin DOMAIN active_migrations']_vars


\* C23: in every cycle the poll loop runs for the tasks that are tracked,
\* whatever the windows: the step that leaves the sync point of a cycle
\* with a tracked task has polled.
C23_TrackedTasksPolledEveryCycle ==
    [][(pc = "sync" /\ pc' # "sync" /\ DOMAIN active_migrations # {}) =>
            sync_log'.polled]_vars


\* C24: a task polled as completed at time t leaves the last_sync_time of
\* its destination at t, and remote_sync is not called for that destination
\* in that cycle nor in a later cycle that runs before t plus the sync
\* interval, for as long as the destination is part of the configuration.
C24_NoStartBeforeInterval ==
    [][/\ pc = "sync" =>
            \A e \in last_completed' \ last_completed :
                \A p \in Positions(datasets') :
                    Identity(datasets'[p[1]].local_dataset,
                             datasets'[p[1]].destinations[p[2]]) = e.dest
                        => datasets'[p[1]].destinations[p[2]].last_sync_time = clock
       /\ \A call \in sync_log'.start_calls :
            \A i \in 1..Len(datasets') :
                datasets'[i].local_dataset = call.dataset =>
                    \A e \in last_completed' :
                        e.dest = Identity(call.dataset, datasets'[i].destinations[call.dest])
                            => total_seconds(clock', e.time) >= settings.remote_sync_interval]_vars


\* C25: in one cycle at most one remote_sync call per dataset returns True,
\* and after it no further destination of the dataset is tried: no call of
\* the cycle is for a destination that comes later in the dataset.
C25_OneStartPerDatasetPerCycle ==
    \A a \in sync_log.started :
        /\ \A b \in sync_log.started : b.dataset = a.dataset => b = a
        /\ \A call \in sync_log.start_calls :
                call.dataset = a.dataset => call.dest <= a.dest

\* A migration was started for the first destination of a dataset whose
\* second destination is due as well
C25_Witness ==
    /\ pc \in {"start", "sleep"}
    /\ \E a \in sync_log.started : \E i \in 1..Len(datasets) :
        /\ datasets[i].local_dataset = a.dataset
        /\ datasets[i].destinations[a.dest].current_task_id # NoTask
        /\ \E j \in (a.dest + 1)..Len(datasets[i].destinations) :
            /\ datasets[i].destinations[j].enabled
            /\ ~is_local_only(datasets[i].destinations[j])
            /\ needs_sync(datasets[i].destinations[j], clock, settings.remote_sync_interval)


\* C26: a remote_sync call that does not return True (the start raises or
\* hands back no task id) changes nothing: no task is tracked for the
\* destination, its current_task_id and last_sync_time are as before the
\* call, and it is due at every later time.  (The holds carry no sync time
\* here, so that the merge that precedes the calls writes nothing.)
C26_FailedStartIsNoOp ==
    [][pc = "start" =>
        \A call \in sync_log'.start_calls \ sync_log.start_calls :
            call \notin sync_log'.started =>
                /\ datasets'[idx].destinations[call.dest] = datasets[idx].destinations[call.dest]
                /\ \A t \in DOMAIN active_migrations' \ DOMAIN active_migrations :
                        ~(active_migrations'[t].ds = idx /\ active_migrations'[t].dest = call.dest)
                /\ \A now \in clock..MaxTime :
                        needs_sync(datasets'[idx].destinations[call.dest], now,
                                   settings.remote_sync_interval)]_vars

\* The start for a destination that was synced before has just failed
C26_Witness ==
    /\ pc \in {"start", "sleep"}
    /\ \E call \in sync_log.start_calls \ sync_log.started : \E i \in 1..Len(datasets) :
        /\ datasets[i].local_dataset = call.dataset
        /\ datasets[i].destinations[call.dest].last_sync_time # NoTime
        /\ datasets[i].destinations[call.dest].current_task_id = NoTask


\* The test the start loop applies to a destination, written out: enabled,
\* with a remote host, and never synced or synced at least the interval ago
IsDue(dest, now, remote_sync_interval) ==
    /\ dest.enabled
    /\ dest.remote_host # None
    /\ \/ dest.last_sync_time = NoTime
       \/ TickSeconds * (now - dest.last_sync_time) >= remote_sync_interval

\* C27: a start is issued only for a destination that is enabled, not
\* local-only and due (never synced, or synced at least the interval ago,
\* the boundary included); the destinations are taken in configuration
\* order: the calls of one iteration are the leading due destinations, the
\* first due one is called unless the dataset is skipped for a running
\* migration, and a start that succeeds is the last call.
C27_StartsOnlyDueInOrder ==
    [][(pc = "start" /\ (pc' = "sleep" \/ idx' > idx)) =>
        LET ds == datasets'[idx]
            due(j) == IsDue(ds.destinations[j], clock, settings.remote_sync_interval)
            new == sync_log'.start_calls \ sync_log.start_calls
            called == {c.dest : c \in new}
            ok == {c.dest : c \in sync_log'.started \ sync_log.started}
        IN  /\ \A c \in new : c.dataset = ds.local_dataset
            /\ \A j \in called : j \in 1..Len(ds.destinations) /\ due(j)
            /\ \A j \in called : \A k \in 1..(j - 1) : due(k) => k \in called
            /\ \A s \in ok : s \in called /\ \A j \in called : j <= s
            /\ ds.local_dataset \notin sync_log'.running =>
                    \A j \in 1..Len(ds.destinations) :
                        (due(j) /\ \A k \in 1..(j - 1) : ~due(k)) => j \in called]_vars

\* A start has been issued for a destination synced exactly the interval
\* ago, in a dataset that also has a disabled destination
C27_Witness ==
    /\ pc \in {"start", "sleep"}
    /\ \E c \in sync_log.start_calls : \E i \in 1..Len(datasets) :
        /\ datasets[i].local_dataset = c.dataset
        /\ datasets[i].destinations[c.dest].last_sync_time # NoTime
        /\ total_seconds(clock, datasets[i].destinations[c.dest].last_sync_time)
                = settings.remote_sync_interval
        /\ \E j \in 1..Len(datasets[i].destinations) : ~datasets[i].destinations[j].enabled


\* C28: a reload that parses its file matches the destinations by remote
\* host and effective remote dataset name: a destination of the new graph
\* that has the identity of a destination of the old graph carries that
\* destination's last_sync_time and current_task_id.
C28_ReloadMatchesEffectiveName ==
    [][(\E src \in ValidSources : ReloadFrom(src)) =>
        \A p \in Positions(datasets') : \A q \in Positions(datasets) :
            LET new_dest == datasets'[p[1]].destinations[p[2]]
                old_dest == datasets[q[1]].destinations[q[2]]
            IN  Identity(datasets'[p[1]].local_dataset, new_dest)
                    = Identity(datasets[q[1]].local_dataset, old_dest)
                => /\ new_dest.last_sync_time = old_dest.last_sync_time
                   /\ new_dest.current_task_id = old_dest.current_task_id]_vars


----------------------------------------------------------------------------
(* update_destination_sync_times on a listing of holds                     *)

\* The hold tags of the listings: sync holds of both hosts, with a time
\* that strptime parses or, for NoTime, one it rejects in both formats
MergeTags == {SyncTag(t, h) : t \in {NoTime, 1, 2}, h \in Hosts} \cup {OtherTag}
MergeHoldLists ==
    {<<>>} \cup {<<a>> : a \in MergeTags} \cup {<<a, b>> : a \in MergeTags, b \in MergeTags}

\* "Parse holds to find latest sync time per host": of the tags that start
\* with sync_ and whose time parses, the latest time per host
sync_times_of(snaps) ==
    [ h \in Hosts |->
        LET of_host == { t \in Times :
                            \E i \in 1..Len(snaps) : \E k \in 1..Len(snaps[i].holds) :
                                /\ is_sync_of(snaps[i].holds[k], h)
                                /\ snaps[i].holds[k].time = t }
        IN  IF of_host = {} THEN NoTime
            ELSE CHOOSE t \in of_host : \A u \in of_host : u <= t ]

\* zfs.get_holds and the parse of its result; raises: the call has failed
\* and the except clause of the function prints the error
read_holds(snaps, raises) ==
    [ok |-> ~raises, sync_times |-> sync_times_of(snaps)]

\* remote_sync_async at the call of update_destination_sync_times for
\* tank/a, its destinations holding any sync times and the remote API any
\* of the listings of up to two snapshots
InitMerge ==
    \E n \in 0..2 : \E f \in [1..n -> {"none"} \X MergeHoldLists] :
    \E last \in [1..2 -> {NoTime} \cup Times] :
        LET r == load_config([server |-> NoConfig, api |-> NoConfig, datasets |-> <<>>],
                             DocA)
        IN  /\ server = r.server
            /\ api = r.api
            /\ datasets = [r.datasets EXCEPT ![1].destinations =
                            [j \in 1..2 |-> [@[j] EXCEPT !.last_sync_time = last[j]]]]
            /\ settings = r.server
            /\ active_migrations = <<>>
            /\ interrupt = FALSE
            /\ pc = "start"
            /\ idx = 1
            /\ backup_dataset = Unbound
            /\ completed_datasets = {}
            /\ clock = MaxTime
            /\ backup_log = NoBackupLog
            /\ sync_log = [NoSyncLog EXCEPT !.polled = TRUE]
            /\ last_progress_log = {}
            /\ last_completed = {}
            /\ zfs_snapshots = Listing(n, f)
            /\ cleanup_log = NoCleanupLog
            /\ loading = NoLoading
            /\ observed = NoObservation

\* update_destination_sync_times(backup_dataset) on the listing
MergeRun ==
    /\ pc = "start"
    /\ \E raises \in BOOLEAN :
        datasets' = [datasets EXCEPT ![idx] =
                        update_destination_sync_times(datasets[idx],
                                                      read_holds(zfs_snapshots, raises))]
    /\ pc' = "sleep"
    /\ UNCHANGED <<server, api, settings, active_migrations, interrupt, idx,
                   backup_dataset, completed_datasets, clock, backup_log, sync_log,
                   last_progress_log, cleanup_vars, swap_vars, last_completed>>

SpecMerge == InitMerge /\ [][MergeRun]_vars

\* The parsable sync hold times of a host in the listing
hold_times_of(host) ==
    { t \in Times :
        \E i \in 1..Len(zfs_snapshots) : \E k \in 1..Len(zfs_snapshots[i].holds) :
            zfs_snapshots[i].holds[k] = SyncTag(t, host) }

\* C29: the merge of the sync times found in the holds never lowers a
\* destination's last_sync_time: the field changes only when a hold of the
\* destination's host is strictly newer than it (or it was unset), and then
\* it becomes the newest hold time of that host; when the holds have been
\* read, every destination with such a hold is updated.
C29_MergeNeverLowers ==
    [][(pc = "start" /\ pc' = "sleep") =>
        LET old(j) == datasets[idx].destinations[j]
            new(j) == datasets'[idx].destinations[j]
            newer(j) == \E t \in hold_times_of(old(j).remote_host) :
                            old(j).last_sync_time = NoTime \/ t > old(j).last_sync_time
            newest(j, t) == /\ t \in hold_times_of(old(j).remote_host)
                            /\ \A u \in hold_times_of(old(j).remote_host) : u <= t
            js == 1..Len(datasets[idx].destinations)
        IN  /\ \A j \in js :
                /\ new(j) = [old(j) EXCEPT !.last_sync_time = new(j).last_sync_time]
                /\ old(j).last_sync_time # NoTime =>
                        /\ new(j).last_sync_time # NoTime
                        /\ new(j).last_sync_time >= old(j).last_sync_time
                /\ new(j).last_sync_time # old(j).last_sync_time =>
                        newer(j) /\ newest(j, new(j).last_sync_time)
            /\ \/ \A j \in js : new(j) = old(j)
               \/ \A j \in js : newer(j) => newest(j, new(j).last_sync_time)]_vars

\* After a merge: h1 holds the newest of its two hold times, and h2 has
\* kept a sync time that is newer than its hold
C29_Witness ==
    /\ pc = "sleep"
    /\ hold_times_of("h1") = {1, 2}
    /\ hold_times_of("h2") = {1}
    /\ datasets[1].destinations[1].last_sync_time = 2
    /\ datasets[1].destinations[2].last_sync_time = 2


\* C30: within one cycle, every dataset for which a snapshot is created has
\* had its cleanup run earlier in that cycle.
C30_CleanupBeforeSnapshot ==
    \A call \in backup_log.snapshots :
        call.outcome = "created" =>
            \E i \in backup_log.cleaned :
                i \in 1..Len(datasets) /\ datasets[i].local_dataset = call.dataset


----------------------------------------------------------------------------
(* The order inside remote_sync_async, and what the cycle leaves behind    *)

\* C31: within one cycle the poll of every tracked task, with the removal
\* of the tasks that answered completed, failed or cancelled, comes before
\* any start: the poll step makes no start and leaves no such task tracked,
\* and a step that issues a start runs in a cycle that has polled.
C31_PollBeforeStart ==
    [][/\ pc = "sync" /\ pc' \in {"start", "sleep"} /\ check_remote_sync_schedule(settings, clock) =>
            /\ sync_log'.polled
            /\ sync_log'.start_calls = {}
            /\ \A answers \in [DOMAIN active_migrations -> PollAnswers] :
                    PollTasks(answers) =>
                        \A t \in DOMAIN active_migrations :
                            answers[t] \in {"completed", "failed", "cancelled"} =>
                                t \notin DOMAIN active_migrations'
       /\ sync_log'.start_calls \ sync_log.start_calls # {} =>
            /\ sync_log.polled
            /\ pc = "start"
            /\ \A t \in DOMAIN active_migrations' \ DOMAIN active_migrations :
                    \E c \in sync_log'.started \ sync_log.started :
                        /\ active_migrations'[t].local_dataset = c.dataset
                        /\ active_migrations'[t].dest = c.dest]_vars

\* A start has been issued in a cycle whose poll dropped a finished task
C31_Witness ==
    /\ sync_log.polled
    /\ sync_log.started # {}
    /\ completed_datasets # {}


\* C32: cleanup deletes no snapshot whose name has not the backup shape,
\* also when the name contains a tier token: every snapshot that a cleanup
\* run takes out of the listing, and every destroy call it makes, is for a
\* snapshot of the backup shape.
C32_OnlyBackupSnapshotsPruned ==
    [][cleanup_log'.runs = cleanup_log.runs + 1 =>
        \A i \in 1..Len(zfs_snapshots) :
            (\/ zfs_snapshots[i].id \in cleanup_log'.destroys
             \/ zfs_snapshots[i].id \notin SnapshotIds(zfs_snapshots'))
                => zfs_snapshots[i].backup]_vars


\* C33: in the cycle in which a task of a dataset is polled as completed,
\* failed or cancelled, or its status call fails, the sync times of that
\* dataset are not refreshed from the holds; every other dataset with remote
\* destinations that the start loop has reached has been refreshed.
C33_NoRefreshAfterTerminalPoll ==
    LET terminal == completed_datasets \cup sync_log.poll_errors
    IN  /\ \A name \in sync_log.refreshed : name \notin terminal
        /\ (sync_log.polled /\ pc \in {"start", "sleep"}) =>
                \A i \in 1..Len(datasets) :
                    (/\ has_remote_destinations(datasets[i])
                     /\ pc = "sleep" \/ i < idx
                     /\ datasets[i].local_dataset \notin terminal)
                        => datasets[i].local_dataset \in sync_log.refreshed


\* C34: a release or a destroy that fails during a cleanup is swallowed:
\* the run still makes every release call and every destroy call of that
\* cleanup, the calls that succeed take effect, and the worker stays in the
\* backup loop.
C34_CleanupFailuresSwallowed ==
    [][cleanup_log'.runs = cleanup_log.runs + 1 =>
        /\ cleanup_log'.releases = release_calls(zfs_snapshots)
        /\ cleanup_log'.destroys = autoremove(zfs_snapshots, get_cleanup_tags(settings))
        /\ ~cleanup_log'.release_failed =>
                \A call \in cleanup_log'.releases :
                    \A i \in 1..Len(zfs_snapshots') :
                        zfs_snapshots'[i].id = call.snap =>
                            \A k \in 1..Len(zfs_snapshots'[i].holds) :
                                zfs_snapshots'[i].holds[k] # call.tag
        /\ ~cleanup_log'.destroy_failed =>
                \A id \in cleanup_log'.destroys : id \notin SnapshotIds(zfs_snapshots')
        /\ pc' = "backup"]_vars

\* A cleanup with two releases and two destroys to make, in which a release
\* and a destroy failed, and one destroy took effect
C34_Witness ==
    /\ cleanup_log.release_failed
    /\ cleanup_log.destroy_failed
    /\ Cardinality(cleanup_log.releases) >= 2
    /\ Cardinality(cleanup_log.destroys) >= 2
    /\ \E id \in cleanup_log.destroys : id \notin SnapshotIds(zfs_snapshots)


\* C35: at the end of every cycle and after every reload the two records of
\* a running task agree: the destination of the active graph that a tracked
\* task references holds that task id as its current_task_id, and every
\* task id held by a destination of the active graph is tracked.
C35_TrackingMatchesCurrentTask ==
    pc \in {"sleep", "backup", "snapshot"} =>
        /\ \A t \in DOMAIN active_migrations :
                active_migrations[t].live =>
                    datasets[active_migrations[t].ds]
                        .destinations[active_migrations[t].dest].current_task_id = t
        /\ \A p \in Positions(datasets) :
                datasets[p[1]].destinations[p[2]].current_task_id # NoTask =>
                    datasets[p[1]].destinations[p[2]].current_task_id
                        \in DOMAIN active_migrations


\* C36: a snapshot is only created for a dataset of the configuration that
\* is active in the cycle: every snapshot the cycle creates is of a dataset
\* of BackupConfig.datasets as the reload of the cycle left it.
C36_SnapshotOnlyForConfiguredDataset ==
    \A call \in backup_log.snapshots :
        call.outcome = "created" =>
            \E i \in 1..Len(datasets) : datasets[i].local_dataset = call.dataset


\* The start loop of this cycle has gone past the dataset at position i
Reached(i) == sync_log.polled /\ (pc = "sleep" \/ (pc = "start" /\ i < idx))

\* The poll of a task that answers failed or cancelled leaves the
\* last_sync_time of its destination as it was (unless another task of the
\* same destination answers completed in the same poll)
FailedPollKeepsSyncTime ==
    pc = "sync" =>
        \A answers \in [DOMAIN active_migrations -> {"running", "completed", "failed", "cancelled"}] :
            PollTasks(answers) =>
                \A t \in DOMAIN active_migrations :
                    LET ref == active_migrations[t]
                    IN  (/\ ref.live
                         /\ answers[t] \in {"failed", "cancelled"}
                         /\ \A u \in TasksOf(active_migrations, ref.ds, ref.dest) :
                                answers[u] # "completed")
                        => /\ datasets'[ref.ds].destinations[ref.dest].last_sync_time
                                = datasets[ref.ds].destinations[ref.dest].last_sync_time
                           /\ datasets'[ref.ds].destinations[ref.dest].current_task_id = NoTask

\* The destinations with a task polled as failed or cancelled in this cycle
\* that are due, in a dataset the start loop has gone past without finding
\* a running migration; earlier says whether a start for an earlier
\* destination of the dataset has succeeded in the cycle
EligibleAgain(earlier) ==
    { f \in sync_log.poll_failed :
        \E i \in 1..Len(datasets) :
            /\ datasets[i].local_dataset = f.dataset
            /\ Reached(i)
            /\ f.dataset \notin sync_log.running
            /\ IsDue(datasets[i].destinations[f.dest], clock, settings.remote_sync_interval)
            /\ earlier = (\E c \in sync_log.started : c.dataset = f.dataset /\ c.dest < f.dest) }

\* C38 as stated: a task polled as failed or cancelled leaves the
\* last_sync_time of its destination unchanged, and in the same cycle
\* remote_sync is called for that destination if it is due and
\* has_running_migration returned False.
C38_FailedTaskRestartedSameCycle ==
    [][/\ FailedPollKeepsSyncTime
       /\ (EligibleAgain(TRUE) \cup EligibleAgain(FALSE) \subseteq sync_log.start_calls)']_vars

\* C38, amended: as above, the call being made unless the start for an
\* earlier destination of the same dataset has succeeded in that cycle,
\* which ends the loop over the destinations.
C38_FailedTaskRestartedUnlessEarlierStart ==
    [][/\ FailedPollKeepsSyncTime
       /\ (EligibleAgain(FALSE) \subseteq sync_log.start_calls)'
       /\ (\A f \in EligibleAgain(TRUE) : f \notin sync_log.start_calls)']_vars

\* A destination whose task was polled as failed or cancelled has a new
\* migration started in the same cycle
C38_Witness ==
    \E f \in EligibleAgain(FALSE) : f \in sync_log.started


\* What C37 supposes of a run: the worker is not interrupted and no cycle
\* raises, has_running_migration reports no running migration, and every
\* remote_sync call returns a task id (every task ends at its next poll in
\* the runs of SpecFair, and the sync window of DocA is always open)
StartsSucceed ==
    /\ ~interrupt
    /\ pc # "except"
    /\ sync_log.running = {}
    /\ sync_log.start_calls \subseteq sync_log.started

\* C37: when the worker runs on, the starts succeed and the tasks end,
\* every enabled destination with a remote host that is due and has no task
\* has a migration started for it at some later time, also when the tasks
\* of an earlier destination of the dataset keep ending as failed or
\* cancelled.
C37_DueDestinationEventuallyStarted ==
    []StartsSucceed =>
        \A j \in 1..2 :
            []((/\ IsDue(datasets[1].destinations[j], clock, settings.remote_sync_interval)
                /\ datasets[1].destinations[j].current_task_id = NoTask)
                => <>(\E c \in sync_log.started : c.dataset = "tank/a" /\ c.dest = j))

====
